---- MODULE Spec2Model ----
(***************************************************************************)
(* The text block extractor of ras_stac/ras1d/utils/ras_utils.py.          *)
(*                                                                         *)
(* A line is a sequence of one-character strings, a document a sequence of *)
(* lines.  Positions are Python's (0-based); a Python result is a record   *)
(* whose kind names how the call ended: a returned value ("str", "list",   *)
(* "pairs"), the implicit return of no value ("None"), or the exception    *)
(* raised ("ValueError").                                                  *)
(***************************************************************************)
EXTENDS Integers, Sequences, FiniteSets, TLC

VARIABLES
    lines,          \* the list of lines the functions are called on: a document,
                    \* a packed block, the contents of a geometry file
    packed,         \* how `lines` was written, when it is a packed numeric block
    call,           \* the call in progress: its function and arguments
    result,         \* how the call ended
    crs,            \* GeometryAsset.crs
    _concave_hull,  \* GeometryAsset._concave_hull
    s3_client,      \* the S3 service: the keys of the objects it holds, as listed
    kwargs,         \* list_keys: the arguments of the next list_objects_v2 request
    keys,           \* list_keys: the keys collected so far
    tries,          \* get_huc8: the responses that did not hold a code so far
    huc8,           \* get_huc8: the code of the last response that held one
    requests        \* the remote service: the requests it has received

vars == <<lines, packed, call, result, crs, _concave_hull, s3_client, kwargs, keys,
          tries, huc8, requests>>

----------------------------------------------------------------------------
(* Bounds of the model.                                                    *)

MaxLen == 3
MaxCount == 2
MaxAdd == 2
MaxPairs == 2
MaxFieldsPerLine == 4

----------------------------------------------------------------------------
(* Python's str and list primitives, as the functions use them.            *)

\* sub in s
str_in(sub, s) ==
    \E i \in 0..(Len(s) - Len(sub)) : SubSeq(s, i + 1, i + Len(sub)) = sub

\* s.find(sub): the first position of sub in s, -1 when there is none
str_find(sub, s) ==
    IF str_in(sub, s)
    THEN CHOOSE i \in 0..(Len(s) - Len(sub)) :
            /\ SubSeq(s, i + 1, i + Len(sub)) = sub
            /\ \A j \in 0..(i - 1) : SubSeq(s, j + 1, j + Len(sub)) # sub
    ELSE -1

\* s.rstrip(" ")
RECURSIVE rstrip(_)
rstrip(s) ==
    IF s # <<>> /\ s[Len(s)] = " " THEN rstrip(SubSeq(s, 1, Len(s) - 1)) ELSE s

\* s.replace(old, new), old not empty: every occurrence, left to right
RECURSIVE str_replace(_, _, _)
str_replace(s, old, new) ==
    IF Len(s) < Len(old) THEN s
    ELSE IF SubSeq(s, 1, Len(old)) = old
         THEN new \o str_replace(SubSeq(s, Len(old) + 1, Len(s)), old, new)
         ELSE <<Head(s)>> \o str_replace(Tail(s), old, new)

\* s.split(token)[1], for a token that occurs in s
split_1(s, token) ==
    LET rest == SubSeq(s, str_find(token, s) + Len(token) + 1, Len(s))
    IN  IF str_in(token, rest) THEN SubSeq(rest, 1, str_find(token, rest)) ELSE rest

\* x in ls
list_in(x, ls) == \E i \in 1..Len(ls) : ls[i] = x

\* ls.index(x), for x in ls
list_index(ls, x) ==
    CHOOSE i \in 0..(Len(ls) - 1) :
        ls[i + 1] = x /\ \A j \in 0..(i - 1) : ls[j + 1] # x

\* list_slice with the end line included: ls[a:b+1]
list_slice_inclusive(ls, a, b) ==
    LET n  == Len(ls)
        b0 == IF b + 1 < 0 THEN (IF b + 1 + n < 0 THEN 0 ELSE b + 1 + n)
              ELSE (IF b + 1 > n THEN n ELSE b + 1)
    IN  SubSeq(ls, a + 1, b0)

\* ls[a:b] for a >= 0; a negative b counts from the end
list_slice(ls, a, b) ==
    LET n  == Len(ls)
        b0 == IF b < 0 THEN (IF b + n < 0 THEN 0 ELSE b + n)
              ELSE (IF b > n THEN n ELSE b)
    IN  SubSeq(ls, a + 1, b0)

\* A value that may be None
Some(s) == [isNone |-> FALSE, s |-> s]
NoneValue == [isNone |-> TRUE, s |-> <<>>]
Truthy(v) == ~v.isNone /\ v.s # <<>>

Raise(message) == [kind |-> "ValueError", message |-> message]

----------------------------------------------------------------------------
(* handle_spaces                                                           *)

handle_spaces_arround_equals(line, ls) ==
    IF list_in(line, ls) THEN Some(line)
    ELSE IF str_in(<<"=", " ">>, line)
         THEN IF list_in(str_replace(line, <<"=", " ">>, <<"=">>), ls)
              THEN Some(str_replace(line, <<"=", " ">>, <<"=">>))
              ELSE NoneValue
         ELSE Some(str_replace(line, <<"=">>, <<"=", " ">>))

handle_spaces(line, ls) ==
    IF list_in(line, ls) THEN [kind |-> "str", val |-> line]
    ELSE IF Truthy(handle_spaces_arround_equals(rstrip(line), ls))
         THEN [kind |-> "str",
               val |-> handle_spaces_arround_equals(rstrip(line), ls).s]
         ELSE LET r == handle_spaces_arround_equals(line \o <<" ">>, ls)
              IN  IF ~r.isNone /\ list_in(r.s, ls)
                  THEN [kind |-> "str", val |-> r.s]
                  ELSE Raise("not found in lines")

----------------------------------------------------------------------------
(* text_block_from_start_end_str                                           *)

\* The for loop of lines 57-63 from position i on: end_index is set by the
\* first line that contains an end_str, to the position list.index finds for
\* that line's text, and the loop goes on while end_index is len(lines).
RECURSIVE end_index_loop(_, _, _, _, _)
end_index_loop(ls, end_strs, additional_lines, i, end_index) ==
    IF i >= Len(ls) \/ end_index # Len(ls) THEN end_index
    ELSE IF \E e \in 1..Len(end_strs) : str_in(end_strs[e], ls[i + 1])
         THEN end_index_loop(ls, end_strs, additional_lines, i + 1,
                             list_index(ls, ls[i + 1]) + additional_lines)
         ELSE end_index_loop(ls, end_strs, additional_lines, i + 1, end_index)

text_block_from_start_end_str(start_str, end_strs, ls, additional_lines) ==
    LET found == handle_spaces(start_str, ls)
    IN  IF found.kind = "ValueError" THEN found
        ELSE IF ~list_in(found.val, ls) THEN Raise("is not in list")
        ELSE LET start_index == list_index(ls, found.val)
                 end_index == end_index_loop(ls, end_strs, additional_lines,
                                             start_index + 1, Len(ls))
             IN  [kind |-> "list", val |-> list_slice(ls, start_index, end_index)]

----------------------------------------------------------------------------
(* text_block_from_start_str_length                                        *)

\* The for loop of lines 92-100 from the i-th line on (i counts from 1);
\* falling off the end of the loop returns no value.
RECURSIVE length_loop(_, _, _, _, _, _)
length_loop(ls, start_str, number_of_lines, i, in_block, results) ==
    IF i > Len(ls) THEN [kind |-> "None"]
    ELSE IF ls[i] = start_str
         THEN length_loop(ls, start_str, number_of_lines, i + 1, TRUE, results)
    ELSE IF in_block
         THEN IF Len(results) >= number_of_lines
              THEN [kind |-> "list", val |-> results]
              ELSE length_loop(ls, start_str, number_of_lines, i + 1, TRUE,
                               Append(results, ls[i]))
    ELSE length_loop(ls, start_str, number_of_lines, i + 1, FALSE, results)

text_block_from_start_str_length(start_str, number_of_lines, ls) ==
    LET found == handle_spaces(start_str, ls)
    IN  IF found.kind = "ValueError" THEN found
        ELSE length_loop(ls, found.val, number_of_lines, 1, FALSE, <<>>)

----------------------------------------------------------------------------
(* text_block_from_start_str_to_empty_line                                 *)

\* The loop of lines 75-84 that returns before it appends the empty line
RECURSIVE to_empty_line_loop_before(_, _, _, _, _)
to_empty_line_loop_before(ls, start_str, i, in_block, results) ==
    IF i > Len(ls) THEN [kind |-> "list", val |-> results]
    ELSE IF ls[i] = start_str
         THEN to_empty_line_loop_before(ls, start_str, i + 1, TRUE, Append(results, ls[i]))
    ELSE IF in_block
         THEN IF ls[i] = <<>>
              THEN [kind |-> "list", val |-> results]
              ELSE to_empty_line_loop_before(ls, start_str, i + 1, TRUE,
                                             Append(results, ls[i]))
    ELSE to_empty_line_loop_before(ls, start_str, i + 1, FALSE, results)

\* The for loop of lines 75-84 from the i-th line on (i counts from 1)
RECURSIVE to_empty_line_loop(_, _, _, _, _)
to_empty_line_loop(ls, start_str, i, in_block, results) ==
    IF i > Len(ls) THEN [kind |-> "list", val |-> results]
    ELSE IF ls[i] = start_str
         THEN to_empty_line_loop(ls, start_str, i + 1, TRUE, Append(results, ls[i]))
    ELSE IF in_block
         THEN IF ls[i] = <<>>
              THEN [kind |-> "list", val |-> Append(results, ls[i])]
              ELSE to_empty_line_loop(ls, start_str, i + 1, TRUE, Append(results, ls[i]))
    ELSE to_empty_line_loop(ls, start_str, i + 1, FALSE, results)

text_block_from_start_str_to_empty_line(start_str, ls) ==
    LET found == handle_spaces(start_str, ls)
    IN  IF found.kind = "ValueError" THEN found
        ELSE to_empty_line_loop(ls, found.val, 1, FALSE, <<>>)

----------------------------------------------------------------------------
(* search_contents                                                         *)

\* results of lines 11-14: one value per line that contains search_string+token
search_results(ls, search_string, token) ==
    LET Matches(line) == str_in(search_string \o token, line)
        matching == SelectSeq(ls, Matches)
    IN  [i \in 1..Len(matching) |-> split_1(matching[i], token)]

\* search_contents without the check for more than one result
search_contents_first(ls, search_string, token, expect_one) ==
    LET results == search_results(ls, search_string, token)
    IN  IF expect_one /\ Len(results) = 0
        THEN [kind |-> "ValueError", expected |-> 1, found |-> 0]
        ELSE IF expect_one
        THEN [kind |-> "str", val |-> results[1]]
        ELSE [kind |-> "list", val |-> results]

search_contents(ls, search_string, token, expect_one) ==
    LET results == search_results(ls, search_string, token)
    IN  IF expect_one /\ Len(results) > 1
        THEN [kind |-> "ValueError", expected |-> 1, found |-> Len(results)]
        ELSE IF expect_one /\ Len(results) = 0
        THEN [kind |-> "ValueError", expected |-> 1, found |-> 0]
        ELSE IF expect_one /\ Len(results) = 1
        THEN [kind |-> "str", val |-> results[1]]
        ELSE [kind |-> "list", val |-> results]

----------------------------------------------------------------------------
(* data_pairs_from_text_block                                              *)

Digits == {"0", "1", "2", "3", "4", "5", "6", "7", "8", "9"}

\* s[a:b] for 0 <= a <= b
str_slice(s, a, b) == SubSeq(s, a + 1, IF b > Len(s) THEN Len(s) ELSE b)

RECURSIVE lstrip(_)
lstrip(s) == IF s # <<>> /\ s[1] = " " THEN lstrip(Tail(s)) ELSE s

RECURSIVE lstrip_zeros(_)
lstrip_zeros(s) == IF s # <<>> /\ s[1] = "0" THEN lstrip_zeros(Tail(s)) ELSE s

RECURSIVE rstrip_zeros(_)
rstrip_zeros(s) ==
    IF s # <<>> /\ s[Len(s)] = "0" THEN rstrip_zeros(SubSeq(s, 1, Len(s) - 1)) ELSE s

\* float(s): surrounding blanks are dropped; what is left is a sign, digits
\* and at most one point, with a digit somewhere (no line of the model holds
\* an exponent, an underscore, "inf" or "nan").  The number is kept exact:
\* its sign, its integer digits and its fraction digits.
float(s) ==
    LET t      == rstrip(lstrip(s))
        signed == t # <<>> /\ t[1] \in {"+", "-"}
        u      == IF signed THEN Tail(t) ELSE t
        points == {i \in 1..Len(u) : u[i] = "."}
        point  == IF points = {} THEN Len(u) + 1 ELSE CHOOSE i \in points : TRUE
        int    == lstrip_zeros(SubSeq(u, 1, point - 1))
        frac   == rstrip_zeros(SubSeq(u, point + 1, Len(u)))
    IN  IF /\ \A i \in 1..Len(u) : u[i] \in Digits \cup {"."}
           /\ Cardinality(points) <= 1
           /\ \E i \in 1..Len(u) : u[i] \in Digits
        THEN [kind |-> "float",
              val |-> [neg |-> signed /\ t[1] = "-" /\ (int # <<>> \/ frac # <<>>),
                       int |-> int, frac |-> frac]]
        ELSE Raise("could not convert string to float")

\* windows with y taken one character late: line[i + width/2 + 1 : i + width]
windows_late_y(line, width) ==
    [k \in 1..((Len(line) + width - 1) \div width) |->
        LET i == (k - 1) * width
        IN  <<str_slice(line, i, i + (width \div 2)),
              str_slice(line, i + (width \div 2) + 1, i + width)>>]

\* The (x, y) strings of the windows of one line: range(0, len(line), width)
windows(line, width) ==
    [k \in 1..((Len(line) + width - 1) \div width) |->
        LET i == (k - 1) * width
        IN  <<str_slice(line, i, i + (width \div 2)),
              str_slice(line, i + (width \div 2), i + width)>>]

RECURSIVE concat(_)
concat(seqs) == IF seqs = <<>> THEN <<>> ELSE Head(seqs) \o concat(Tail(seqs))

data_pairs_from_text_block(ls, width) ==
    LET ws == concat([n \in 1..Len(ls) |-> windows(ls[n], width)])
    IN  IF \E k \in 1..Len(ws) :
              float(ws[k][1]).kind = "ValueError" \/ float(ws[k][2]).kind = "ValueError"
        THEN Raise("could not convert string to float")
        ELSE [kind |-> "pairs",
              val |-> [k \in 1..Len(ws) |-> <<float(ws[k][1]).val, float(ws[k][2]).val>>]]

----------------------------------------------------------------------------
(* The packing encoder of the format: every number right-justified in a    *)
(* field of half the pair width, fieldsPerLine fields on a line.           *)

format(v) ==
    (IF v.neg THEN <<"-">> ELSE <<>>)
        \o (IF v.int = <<>> /\ v.frac = <<>> THEN <<"0">> ELSE v.int)
        \o (IF v.frac = <<>> THEN <<>> ELSE <<".">> \o v.frac)

rjust(s, n) == [i \in 1..(n - Len(s)) |-> " "] \o s

Pack(pairs, width, fieldsPerLine) ==
    LET fields == concat([k \in 1..Len(pairs) |->
                            <<rjust(format(pairs[k][1]), width \div 2),
                              rjust(format(pairs[k][2]), width \div 2)>>])
        nLines == (Len(fields) + fieldsPerLine - 1) \div fieldsPerLine
    IN  [n \in 1..nLines |->
            concat(SubSeq(fields, (n - 1) * fieldsPerLine + 1,
                          IF n * fieldsPerLine > Len(fields) THEN Len(fields)
                          ELSE n * fieldsPerLine))]

\* The two pair widths of the format: station-elevation pairs and coordinates
WidthStaElev == 16
WidthCoords == 32

----------------------------------------------------------------------------
(* Reach, XS and Structure of ras_stac/ras1d/utils/classes.py.  An object  *)
(* is a record of its fields; a dict is the sequence of its items in       *)
(* insertion order; a call that raises ends with the exception's kind.     *)

\* s.split(sep), sep not empty: the parts of s between the occurrences of sep
RECURSIVE str_split(_, _)
str_split(s, sep) ==
    IF str_in(sep, s)
    THEN <<SubSeq(s, 1, str_find(sep, s))>>
         \o str_split(SubSeq(s, str_find(sep, s) + Len(sep) + 1, Len(s)), sep)
    ELSE <<s>>

\* The value of a string of decimal digits
RECURSIVE digits_value(_)
digits_value(ds) ==
    IF ds = <<>> THEN 0
    ELSE 10 * digits_value(SubSeq(ds, 1, Len(ds) - 1))
         + (CHOOSE n \in 0..9 :
               <<"0", "1", "2", "3", "4", "5", "6", "7", "8", "9">>[n + 1] = ds[Len(ds)])

\* int(s): surrounding blanks are dropped; what is left is a sign and digits
int(s) ==
    LET t      == rstrip(lstrip(s))
        signed == t # <<>> /\ t[1] \in {"+", "-"}
        u      == IF signed THEN Tail(t) ELSE t
    IN  IF u # <<>> /\ \A i \in 1..Len(u) : u[i] \in Digits
        THEN [kind |-> "int",
              val |-> IF signed /\ t[1] = "-" THEN 0 - digits_value(u) ELSE digits_value(u)]
        ELSE Raise("invalid literal for int() with base 10")

\* d[k] = v on a dict: a new key goes last, a known key keeps its place
dict_set(d, k, v) ==
    IF \E i \in 1..Len(d) : d[i].key = k
    THEN [i \in 1..Len(d) |-> IF d[i].key = k THEN [key |-> k, value |-> v] ELSE d[i]]
    ELSE Append(d, [key |-> k, value |-> v])

dict_keys(d) == [i \in 1..Len(d) |-> d[i].key]

\* "Type RM Length L Ch R", the key of a node header, and "River Reach"
TypeRMLengthLChR ==
    <<"T", "y", "p", "e", " ", "R", "M", " ", "L", "e", "n", "g", "t", "h", " ",
      "L", " ", "C", "h", " ", "R">>
RiverReach == <<"R", "i", "v", "e", "r", " ", "R", "e", "a", "c", "h">>

\* header.split(",")[position] of the one node header of ras_data
split_xs_header(ras_data, position) ==
    LET header == search_contents(ras_data, TypeRMLengthLChR \o <<" ">>, <<"=">>, TRUE)
    IN  IF header.kind # "str" THEN header
        ELSE IF position >= Len(str_split(header.val, <<",">>))
        THEN [kind |-> "IndexError"]
        ELSE [kind |-> "str", val |-> str_split(header.val, <<",">>)[position + 1]]

\* XS.river_station
XS_river_station(ras_data) ==
    LET field == split_xs_header(ras_data, 1)
    IN  IF field.kind # "str" THEN field
        ELSE float(str_replace(field.val, <<"*">>, <<>>))

\* XS(...): the key river_reach_rs is kept as its three parts
XS(ras_data, river_reach, river, reach, xs_crs) ==
    LET river_station == XS_river_station(ras_data)
    IN  IF river_station.kind # "float" THEN river_station
        ELSE [kind |-> "XS", ras_data |-> ras_data, crs |-> xs_crs, river |-> river,
              reach |-> reach, river_reach |-> river_reach,
              river_reach_rs |-> [river |-> river, reach |-> reach,
                                  river_station |-> river_station.val]]

\* header.split(",")[position] of the one node header of a structure
split_structure_header(ras_data, position) ==
    LET header == search_contents(ras_data, TypeRMLengthLChR \o <<" ">>, <<"=">>, TRUE)
    IN  IF header.kind # "str" THEN header
        ELSE IF position >= Len(str_split(header.val, <<",">>))
        THEN [kind |-> "IndexError"]
        ELSE [kind |-> "str", val |-> str_split(header.val, <<",">>)[position + 1]]

\* Structure.river_station
Structure_river_station(ras_data) ==
    LET field == split_structure_header(ras_data, 1)
    IN  IF field.kind # "str" THEN field ELSE float(field.val)

\* Structure(...)
Structure(ras_data, river_reach, river, reach, structure_crs, us_xs) ==
    LET river_station == Structure_river_station(ras_data)
    IN  IF river_station.kind # "float" THEN river_station
        ELSE [kind |-> "Structure", ras_data |-> ras_data, crs |-> structure_crs,
              river |-> river, reach |-> reach, river_reach |-> river_reach,
              river_reach_rs |-> [river |-> river, reach |-> reach,
                                  river_station |-> river_station.val],
              us_xs |-> us_xs]

\* Reach(ras_data, river_reach, crs)
Reach(ras_data, river_reach, reach_crs) ==
    LET reach_lines == text_block_from_start_end_str(RiverReach \o <<"=">> \o river_reach,
                                                     <<RiverReach>>, ras_data, -1)
        names == str_split(river_reach, <<",">>)
    IN  IF reach_lines.kind # "list" THEN reach_lines
        ELSE IF Len(names) < 2 THEN [kind |-> "IndexError"]
        ELSE [kind |-> "Reach", ras_data |-> reach_lines.val, crs |-> reach_crs,
              river_reach |-> river_reach, river |-> rstrip(names[1]),
              reach |-> rstrip(names[2])]

\* Reach.reach_nodes
reach_nodes(self) ==
    search_contents(self.ras_data, TypeRMLengthLChR \o <<" ">>, <<"=">>, FALSE)

\* type, _, _, _, _ = header.split(",")[:5], then int(type)
node_type(header) ==
    IF Len(str_split(header, <<",">>)) < 5
    THEN Raise("not enough values to unpack")
    ELSE int(str_split(header, <<",">>)[1])

\* The lines of the node whose header is given
node_lines(self, header) ==
    text_block_from_start_end_str(TypeRMLengthLChR \o <<" ", "=">> \o header,
                                  <<TypeRMLengthLChR, RiverReach>>, self.ras_data, 0)

\* The for loop of Reach.cross_sections from the i-th header on; the steps
\* of one pass take what the pass has computed so far
RECURSIVE cross_sections_loop(_, _, _, _)

cross_sections_add(self, headers, i, cross_sections, cross_section) ==
    IF cross_section.kind # "XS" THEN cross_section
    ELSE cross_sections_loop(self, headers, i + 1,
             dict_set(cross_sections, cross_section.river_reach_rs, cross_section))

cross_sections_xs(self, headers, i, cross_sections, xs_lines) ==
    IF xs_lines.kind # "list" THEN xs_lines
    ELSE cross_sections_add(self, headers, i, cross_sections,
             XS(xs_lines.val, self.river_reach, self.river, self.reach, self.crs))

cross_sections_node(self, headers, i, cross_sections, type) ==
    IF type.kind # "int" THEN type
    ELSE IF type.val # 1 THEN cross_sections_loop(self, headers, i + 1, cross_sections)
    ELSE cross_sections_xs(self, headers, i, cross_sections, node_lines(self, headers[i]))

cross_sections_loop(self, headers, i, cross_sections) ==
    IF i > Len(headers) THEN [kind |-> "dict", val |-> cross_sections]
    ELSE cross_sections_node(self, headers, i, cross_sections, node_type(headers[i]))

\* Reach.cross_sections
Reach_cross_sections(self) == cross_sections_loop(self, reach_nodes(self).val, 1, <<>>)

\* The type codes Reach.structures takes for a structure, with 7 among them
StructureTypesAndSeven == {2, 3, 4, 5, 6, 7}

\* The type codes Reach.structures takes for a structure
StructureTypes == {2, 3, 4, 5, 6}

\* The local name cross_section before its first assignment
Unbound == [kind |-> "unbound"]

\* The for loop of Reach.structures from the i-th header on; the steps of
\* one pass take what the pass has computed so far
RECURSIVE structures_loop(_, _, _, _, _)

structures_add(self, headers, i, cross_section, structures, structure) ==
    IF structure.kind # "Structure" THEN structure
    ELSE structures_loop(self, headers, i + 1, cross_section,
             dict_set(structures, structure.river_reach_rs, structure))

structures_structure(self, headers, i, cross_section, structures, structure_lines) ==
    IF structure_lines.kind # "list" THEN structure_lines
    ELSE IF cross_section = Unbound
    THEN [kind |-> "UnboundLocalError", name |-> "cross_section"]
    ELSE structures_add(self, headers, i, cross_section, structures,
             Structure(structure_lines.val, self.river_reach, self.river, self.reach,
                       self.crs, cross_section))

structures_bind(self, headers, i, structures, cross_section) ==
    IF cross_section.kind # "XS" THEN cross_section
    ELSE structures_loop(self, headers, i + 1, cross_section, structures)

structures_xs(self, headers, i, structures, xs_lines) ==
    IF xs_lines.kind # "list" THEN xs_lines
    ELSE structures_bind(self, headers, i, structures,
             XS(xs_lines.val, self.river_reach, self.river, self.reach, self.crs))

\* structures_node that keeps the first cross section of the scan
structures_node_keeps_first(self, headers, i, cross_section, structures, type) ==
    IF type.kind # "int" THEN type
    ELSE IF type.val = 1 /\ cross_section # Unbound
    THEN structures_loop(self, headers, i + 1, cross_section, structures)
    ELSE IF type.val = 1
    THEN structures_xs(self, headers, i, structures, node_lines(self, headers[i]))
    ELSE IF type.val \in StructureTypes
    THEN structures_structure(self, headers, i, cross_section, structures,
                              node_lines(self, headers[i]))
    ELSE [kind |-> "TypeError", type |-> type.val, supported |-> <<2, 3, 4, 5, 6>>]
structures_node(self, headers, i, cross_section, structures, type) ==
    IF type.kind # "int" THEN type
    ELSE IF type.val = 1
    THEN structures_xs(self, headers, i, structures, node_lines(self, headers[i]))
    ELSE IF type.val \in StructureTypes
    THEN structures_structure(self, headers, i, cross_section, structures,
                              node_lines(self, headers[i]))
    ELSE [kind |-> "TypeError", type |-> type.val, supported |-> <<2, 3, 4, 5, 6>>]

structures_loop(self, headers, i, cross_section, structures) ==
    IF i > Len(headers) THEN [kind |-> "dict", val |-> structures]
    ELSE structures_node(self, headers, i, cross_section, structures,
                         node_type(headers[i]))

\* Reach.structures
Reach_structures(self) == structures_loop(self, reach_nodes(self).val, 1, Unbound, <<>>)

----------------------------------------------------------------------------
(* The counted blocks of XS and Reach in ras_stac/ras1d/utils/classes.py:  *)
(* the count a key line declares, and the pairs read from the lines after  *)
(* it.  An accessor ends with its value or with the exception's kind.      *)

\* The value None
None == [kind |-> "None"]

\* The keys "XS GIS Cut Line", "#Sta/Elev" and "Reach XY"
XSGISCutLine == <<"X", "S", " ", "G", "I", "S", " ", "C", "u", "t", " ", "L", "i", "n", "e">>
StaElev == <<"#", "S", "t", "a", "/", "E", "l", "e", "v">>
ReachXY == <<"R", "e", "a", "c", "h", " ", "X", "Y">>

\* str(n) for n >= 0
RECURSIVE str_int(_)
str_int(n) ==
    IF n < 10 THEN <<(<<"0", "1", "2", "3", "4", "5", "6", "7", "8", "9">>)[n + 1]>>
    ELSE str_int(n \div 10) \o str_int(n % 10)

\* math.ceil(n / d) for n >= 0
ceil_div(n, d) == (n + d - 1) \div d

\* int(search_contents(...)), nothing caught
int_of(found) == IF found.kind # "str" THEN found ELSE int(found.val)

\* XS.number_of_coords: a ValueError of the search or of int() gives 0
XS_number_of_coords(self) ==
    LET n == int_of(search_contents(self.ras_data, XSGISCutLine, <<"=">>, TRUE))
    IN  IF n.kind = "ValueError" THEN [kind |-> "int", val |-> 0] ELSE n

\* XS.coords once the lines are there: no lines, no value
XS_coords_over(block) ==
    IF block.kind = "ValueError" THEN block
    ELSE IF block.kind = "None" \/ block.val = <<>> THEN None
    ELSE data_pairs_from_text_block(block.val, WidthCoords)

\* XS.coords
XS_coords(self) ==
    XS_coords_over(text_block_from_start_str_length(
                       XSGISCutLine \o <<"=">> \o str_int(XS_number_of_coords(self).val),
                       ceil_div(XS_number_of_coords(self).val, 2), self.ras_data))

\* XS.number_of_station_elevation_points
XS_number_of_station_elevation_points(self) ==
    int_of(search_contents(self.ras_data, StaElev, <<"=">>, TRUE))

\* data_pairs_from_text_block on what text_block_from_start_str_length gave:
\* iterating over None is a TypeError
data_pairs_of(block, width) ==
    IF block.kind = "ValueError" THEN block
    ELSE IF block.kind = "None" THEN [kind |-> "TypeError", of |-> "NoneType"]
    ELSE data_pairs_from_text_block(block.val, width)

\* The try block of XS.station_elevation_points once the count is there
station_elevation_points_try(self, n) ==
    IF n.kind # "int" THEN n
    ELSE data_pairs_of(text_block_from_start_str_length(
                           StaElev \o <<"=", " ">> \o str_int(n.val) \o <<" ">>,
                           ceil_div(n.val, 5), self.ras_data),
                       WidthStaElev)

\* except ValueError: return None
except_ValueError(tried) == IF tried.kind = "ValueError" THEN None ELSE tried

\* XS.station_elevation_points
XS_station_elevation_points(self) ==
    except_ValueError(
        station_elevation_points_try(self, XS_number_of_station_elevation_points(self)))

\* a < b for two floats, compared at the longer of their fractions
float_scaled(v, d) ==
    (IF v.neg THEN -1 ELSE 1)
    * digits_value(v.int \o v.frac \o [i \in 1..(d - Len(v.frac)) |-> "0"])
float_less(a, b) ==
    LET d == IF Len(a.frac) > Len(b.frac) THEN Len(a.frac) ELSE Len(b.frac)
    IN  float_scaled(a, d) < float_scaled(b, d)

\* min(y) and max(y) of a tuple of floats that is not empty: the first of
\* the least, the first of the greatest
min(y) == y[CHOOSE i \in 1..Len(y) :
                /\ \A j \in 1..Len(y) : ~float_less(y[j], y[i])
                /\ \A j \in 1..(i - 1) : float_less(y[i], y[j])]
max(y) == y[CHOOSE i \in 1..Len(y) :
                /\ \A j \in 1..Len(y) : ~float_less(y[i], y[j])
                /\ \A j \in 1..(i - 1) : float_less(y[j], y[i])]

\* _, y = list(zip(*points)) for points that are not empty
zip_y(points) == [k \in 1..Len(points) |-> points[k][2]]

\* XS.thalweg once the points are there: no points, no value
thalweg_over(points) ==
    IF points.kind # "pairs" THEN points
    ELSE IF points.val = <<>> THEN None
    ELSE [kind |-> "float", val |-> min(zip_y(points.val))]

\* XS.thalweg
XS_thalweg(self) == thalweg_over(XS_station_elevation_points(self))

\* XS.xs_max_elevation once the points are there
xs_max_elevation_over(points) ==
    IF points.kind # "pairs" THEN points
    ELSE IF points.val = <<>> THEN None
    ELSE [kind |-> "float", val |-> max(zip_y(points.val))]

\* XS.xs_max_elevation
XS_xs_max_elevation(self) == xs_max_elevation_over(XS_station_elevation_points(self))

\* Reach.number_of_coords
Reach_number_of_coords(self) ==
    int_of(search_contents(self.ras_data, ReachXY, <<"=">>, TRUE))

\* Reach.coords once the count is there
Reach_coords_over(self, n) ==
    IF n.kind # "int" THEN n
    ELSE data_pairs_of(text_block_from_start_str_length(
                           ReachXY \o <<"=", " ">> \o str_int(n.val) \o <<" ">>,
                           ceil_div(n.val, 2), self.ras_data),
                       WidthCoords)

\* Reach.coords
Reach_coords(self) == Reach_coords_over(self, Reach_number_of_coords(self))

----------------------------------------------------------------------------
(* GeometryAsset of ras_stac/ras1d/utils/classes.py.  The asset is the     *)
(* record of its fields contents, crs and _concave_hull.  A frame that     *)
(* pandas builds is known by its rows and its crs.                         *)

\* A reference system is known by the units it measures in ("-": none named)
Crs(units) == [kind |-> "crs", units |-> units]

\* The decorator check_crs: func_self is what the decorated function gives
\* on self, looked at only when there is a crs
check_crs(self, func_self) ==
    IF self.crs = None THEN Raise("Projection cannot be None") ELSE func_self

\* d.update(other)
RECURSIVE dict_update(_, _)
dict_update(d, other) ==
    IF other = <<>> THEN d
    ELSE dict_update(dict_set(d, other[1].key, other[1].value), Tail(other))

\* The for loop of GeometryAsset.reaches from the i-th name on
RECURSIVE reaches_loop(_, _, _, _)

reaches_add(self, river_reaches, i, reaches, reach) ==
    IF reach.kind # "Reach" THEN reach
    ELSE reaches_loop(self, river_reaches, i + 1,
                      dict_set(reaches, river_reaches[i], reach))

reaches_loop(self, river_reaches, i, reaches) ==
    IF i > Len(river_reaches) THEN [kind |-> "dict", val |-> reaches]
    ELSE reaches_add(self, river_reaches, i, reaches,
                     Reach(self.contents, river_reaches[i], self.crs))

reaches_func(self) ==
    reaches_loop(self, search_contents(self.contents, RiverReach, <<"=">>, FALSE).val,
                 1, <<>>)

\* GeometryAsset.reaches
GeometryAsset_reaches(self) == check_crs(self, reaches_func(self))

\* The for loop of GeometryAsset.rivers from the i-th reach on
RECURSIVE rivers_loop(_, _, _)
rivers_loop(reaches, i, rivers) ==
    IF i > Len(reaches) THEN [kind |-> "dict", val |-> rivers]
    ELSE rivers_loop(reaches, i + 1,
             dict_set(rivers, reaches[i].value.river,
                      dict_update(<<>>, <<[key |-> reaches[i].value.reach,
                                           value |-> reaches[i].value]>>)))

rivers_over(reaches) ==
    IF reaches.kind # "dict" THEN reaches ELSE rivers_loop(reaches.val, 1, <<>>)

rivers_func(self) == rivers_over(GeometryAsset_reaches(self))

\* GeometryAsset.rivers
GeometryAsset_rivers(self) == check_crs(self, rivers_func(self))

\* Junction(ras_data, junct, crs)
Junction_over(ras_data, junct, junction_crs) ==
    IF ras_data.kind # "list" THEN ras_data
    ELSE [kind |-> "Junction", crs |-> junction_crs, name |-> junct,
          ras_data |-> ras_data.val]

Junction(ras_data, junct, junction_crs) ==
    Junction_over(text_block_from_start_str_to_empty_line(
                      <<"J", "u", "n", "c", "t", " ", "N", "a", "m", "e", "=">> \o junct,
                      ras_data),
                  junct, junction_crs)

\* The for loop of GeometryAsset.junctions from the i-th name on
RECURSIVE junctions_loop(_, _, _, _)

junctions_add(self, juncts, i, junctions, junction) ==
    IF junction.kind # "Junction" THEN junction
    ELSE junctions_loop(self, juncts, i + 1, dict_set(junctions, juncts[i], junction))

junctions_loop(self, juncts, i, junctions) ==
    IF i > Len(juncts) THEN [kind |-> "dict", val |-> junctions]
    ELSE junctions_add(self, juncts, i, junctions,
                       Junction(self.contents, juncts[i], self.crs))

junctions_func(self) ==
    junctions_loop(self,
                   search_contents(self.contents,
                                   <<"J", "u", "n", "c", "t", " ", "N", "a", "m", "e">>,
                                   <<"=">>, FALSE).val,
                   1, <<>>)

\* GeometryAsset.junctions
GeometryAsset_junctions(self) == check_crs(self, junctions_func(self))

\* The for loop of GeometryAsset.cross_sections from the i-th reach on
RECURSIVE asset_cross_sections_loop(_, _, _)

asset_cross_sections_update(reaches, i, cross_sections, of_reach) ==
    IF of_reach.kind # "dict" THEN of_reach
    ELSE asset_cross_sections_loop(reaches, i + 1,
                                   dict_update(cross_sections, of_reach.val))

asset_cross_sections_loop(reaches, i, cross_sections) ==
    IF i > Len(reaches) THEN [kind |-> "dict", val |-> cross_sections]
    ELSE asset_cross_sections_update(reaches, i, cross_sections,
                                     Reach_cross_sections(reaches[i].value))

asset_cross_sections_over(reaches) ==
    IF reaches.kind # "dict" THEN reaches
    ELSE asset_cross_sections_loop(reaches.val, 1, <<>>)

cross_sections_func(self) == asset_cross_sections_over(GeometryAsset_reaches(self))

\* GeometryAsset.cross_sections
GeometryAsset_cross_sections(self) == check_crs(self, cross_sections_func(self))

\* The for loop of GeometryAsset.structures from the i-th reach on
RECURSIVE asset_structures_loop(_, _, _)

asset_structures_update(reaches, i, structures, of_reach) ==
    IF of_reach.kind # "dict" THEN of_reach
    ELSE asset_structures_loop(reaches, i + 1, dict_update(structures, of_reach.val))

asset_structures_loop(reaches, i, structures) ==
    IF i > Len(reaches) THEN [kind |-> "dict", val |-> structures]
    ELSE asset_structures_update(reaches, i, structures,
                                 Reach_structures(reaches[i].value))

asset_structures_over(reaches) ==
    IF reaches.kind # "dict" THEN reaches
    ELSE asset_structures_loop(reaches.val, 1, <<>>)

structures_func(self) == asset_structures_over(GeometryAsset_reaches(self))

\* GeometryAsset.structures
GeometryAsset_structures(self) == check_crs(self, structures_func(self))

\* pd.concat([o.gdf for o in objs.values()], ignore_index=True).  The lines
\* of a node or a reach past its header (cut line, bank stations, stations
\* and elevations, centre line) are not written out in the documents of
\* the model: `framed` tells whether they are there, so that o.gdf is a row.
pd_concat(objs, framed, frame_crs) ==
    IF objs.kind # "dict" THEN objs
    ELSE IF objs.val # <<>> /\ ~framed THEN Raise("expected 1 result, no results found")
    ELSE IF objs.val = <<>> THEN Raise("No objects to concatenate")
    ELSE [kind |-> "GeoDataFrame", rows |-> dict_keys(objs.val), crs |-> frame_crs]

\* GeometryAsset.reach_gdf
GeometryAsset_reach_gdf(self, framed) ==
    check_crs(self, pd_concat(GeometryAsset_reaches(self), framed, self.crs))

\* GeometryAsset.xs_gdf
GeometryAsset_xs_gdf(self, framed) ==
    check_crs(self, pd_concat(GeometryAsset_cross_sections(self), framed, self.crs))

\* The body of concave_hull once xs_df is there: the first pass of the loop
\* reads the name Polygon, the line after a loop of no pass the name
\* junction; the module defines neither
concave_hull_over(xs_df) ==
    IF xs_df.kind # "GeoDataFrame" THEN xs_df
    ELSE IF xs_df.rows # <<>> THEN [kind |-> "NameError", name |-> "Polygon"]
    ELSE [kind |-> "NameError", name |-> "junction"]

\* GeometryAsset.concave_hull: what it returns or raises, and the cache after
concave_hull(self, framed) ==
    IF self._concave_hull # None
    THEN [returns |-> self._concave_hull, _concave_hull |-> self._concave_hull]
    ELSE [returns |-> concave_hull_over(GeometryAsset_xs_gdf(self, framed)),
          _concave_hull |-> self._concave_hull]

\* The attribute river_gdf: no class of the module defines it
river_gdf(self) == [kind |-> "AttributeError", name |-> "river_gdf"]

get_river_miles_over(gdf) ==
    IF gdf.kind # "GeoDataFrame" THEN gdf
    ELSE IF gdf.crs.units = "-"
    THEN [kind |-> "RuntimeError",
          message |-> "No units specified. The coordinate system may be Geographic."]
    ELSE IF gdf.crs.units \in {"ft-us", "ft", "us-ft"}
    THEN [kind |-> "float", per_mile |-> 5280]
    ELSE IF gdf.crs.units \in {"m", "meters"}
    THEN [kind |-> "float", per_mile |-> 1609]
    ELSE [kind |-> "RuntimeError", message |-> "Expected feet or meters"]

\* GeometryAsset.get_river_miles
get_river_miles(self) == get_river_miles_over(river_gdf(self))

----------------------------------------------------------------------------
(* s3_path_public_url_converter and list_keys of ras_stac/utils/s3_utils.py *)

\* s.startswith(prefix), s.endswith(suffix), s[1:]
startswith(s, prefix) == Len(s) >= Len(prefix) /\ SubSeq(s, 1, Len(prefix)) = prefix
endswith(s, suffix) ==
    Len(s) >= Len(suffix) /\ SubSeq(s, Len(s) - Len(suffix) + 1, Len(s)) = suffix
from_1(s) == SubSeq(s, 2, Len(s))

\* "s3://", "https://" and ".s3.amazonaws.com"
S3Scheme == <<"s", "3", ":", "/", "/">>
HttpsScheme == <<"h", "t", "t", "p", "s", ":", "/", "/">>
AmazonHost ==
    <<".", "s", "3", ".", "a", "m", "a", "z", "o", "n", "a", "w", "s", ".", "c", "o", "m">>

\* Lines 176-183: the key, and the public URL, of an s3 URL whose bucket is known
s3_to_public(url, bucket, minio_mode, MINIO_S3_ENDPOINT) ==
    IF minio_mode
    THEN MINIO_S3_ENDPOINT \o <<"/">> \o bucket \o <<"/">>
         \o from_1(str_replace(url, S3Scheme \o bucket, <<>>))
    ELSE HttpsScheme \o bucket \o AmazonHost \o <<"/">>
         \o from_1(str_replace(url, S3Scheme \o bucket, <<>>))

\* Lines 194-196: the key, and the s3 URL, of an https URL whose bucket is known
public_to_s3(url, bucket) ==
    S3Scheme \o bucket \o <<"/">>
    \o str_replace(url, HttpsScheme \o bucket \o AmazonHost \o <<"/">>, <<>>)

\* Lines 190-191 and 196: the same in minio mode
minio_to_s3(url, MINIO_S3_ENDPOINT) ==
    S3Scheme \o str_split(str_replace(url, MINIO_S3_ENDPOINT, <<>>), <<"/">>)[1]
    \o <<"/">> \o str_replace(url, MINIO_S3_ENDPOINT, <<>>)

s3_path_public_url_converter(url, minio_mode, MINIO_S3_ENDPOINT) ==
    IF startswith(url, <<"s", "3">>)
    THEN [kind |-> "str",
          val |-> s3_to_public(url, str_split(str_replace(url, S3Scheme, <<>>), <<"/">>)[1],
                               minio_mode, MINIO_S3_ENDPOINT)]
    ELSE IF startswith(url, <<"h", "t", "t", "p">>)
    THEN IF minio_mode
         THEN [kind |-> "str", val |-> minio_to_s3(url, MINIO_S3_ENDPOINT)]
         ELSE [kind |-> "str",
               val |-> public_to_s3(url, str_split(str_replace(url, HttpsScheme, <<>>),
                                                   AmazonHost)[1])]
    ELSE Raise("Invalid URL format")

\* The keys one response of the service carries at most (1000 at S3)
MaxKeys == 2

\* s3_client.list_objects_v2(**request): the next MaxKeys keys under the
\* prefix from the continuation token on (a position in the listing).  The
\* response has Contents only when it carries a key, and NextContinuationToken
\* only when it is truncated.
list_objects_v2(objects, request) ==
    LET matching == SelectSeq(objects, LAMBDA k : startswith(k, request.Prefix))
        start == IF "ContinuationToken" \in DOMAIN request
                 THEN request.ContinuationToken ELSE 0
        stop == IF start + MaxKeys < Len(matching) THEN start + MaxKeys ELSE Len(matching)
        contents == IF stop > start
                    THEN ("Contents" :> SubSeq(matching, start + 1, stop)) ELSE <<>>
        next == IF stop < Len(matching) THEN ("NextContinuationToken" :> stop) ELSE <<>>
    IN  contents @@ next @@ [KeyCount |-> stop - start, IsTruncated |-> stop < Len(matching)]

\* Lines 246-250 once the response is there: the keys and the request after
\* the pass, and how the call stands
list_keys_pass(resp, request, collected, suffix) ==
    IF "Contents" \notin DOMAIN resp
    THEN [keys |-> collected, kwargs |-> request,
          result |-> [kind |-> "KeyError", key |-> "Contents"]]
    ELSE IF "NextContinuationToken" \in DOMAIN resp
    THEN [keys |-> collected \o SelectSeq(resp.Contents, LAMBDA k : endswith(k, suffix)),
          kwargs |-> ("ContinuationToken" :> resp.NextContinuationToken) @@ request,
          result |-> [kind |-> "running"]]
    ELSE [keys |-> collected \o SelectSeq(resp.Contents, LAMBDA k : endswith(k, suffix)),
          kwargs |-> request,
          result |-> [kind |-> "list",
                      val |-> collected
                              \o SelectSeq(resp.Contents, LAMBDA k : endswith(k, suffix))]]

----------------------------------------------------------------------------
(* GeometryAsset.has_2d, and what the accessors and the extractors write   *)
(* to.  A statement that appends or assigns writes to one list or dict;    *)
(* the list a function was handed is `lines`, the others are its own.      *)

StorageAreaIs2D == <<"S", "t", "o", "r", "a", "g", "e", " ", "A", "r", "e", "a", " ", "I", "s", "2", "D", "=">>

\* The for loop of has_2d from the i-th line on
RECURSIVE has_2d_loop(_, _)

has_2d_flag(ls, i, flag) ==
    IF flag.kind # "int" THEN flag
    ELSE IF flag.val \in {1, -1} THEN [kind |-> "bool", val |-> TRUE]
    ELSE has_2d_loop(ls, i + 1)

has_2d_loop(ls, i) ==
    IF i > Len(ls) THEN [kind |-> "bool", val |-> FALSE]
    ELSE IF startswith(ls[i], StorageAreaIs2D)
    THEN has_2d_flag(ls, i, int(SubSeq(ls[i], Len(StorageAreaIs2D) + 1, Len(ls[i]))))
    ELSE has_2d_loop(ls, i + 1)

\* GeometryAsset.has_2d, on the lines of the file
has_2d(self) == has_2d_loop(self.contents, 1)

\* The same table with the results of search_contents appended to the list
\* it searches
WritesToWithLines ==
    [search_contents |-> "lines",
     text_block_from_start_str_to_empty_line |-> "results",
     text_block_from_start_str_length |-> "results",
     data_pairs_from_text_block |-> "pairs",
     reaches |-> "reaches", rivers |-> "rivers", junctions |-> "junctions",
     cross_sections |-> "cross_sections", structures |-> "structures"]

\* The object the append or item assignment of each function writes to
WritesTo ==
    [search_contents |-> "results",
     text_block_from_start_str_to_empty_line |-> "results",
     text_block_from_start_str_length |-> "results",
     data_pairs_from_text_block |-> "pairs",
     reaches |-> "reaches", rivers |-> "rivers", junctions |-> "junctions",
     cross_sections |-> "cross_sections", structures |-> "structures"]

\* The list `lines` after a function wrote the values to its target; a
\* function that ended with an exception or with None wrote none that stay
written(returned) ==
    IF returned.kind \in {"list", "pairs", "dict"} THEN returned.val
    ELSE IF returned.kind = "str" THEN <<returned.val>>
    ELSE <<>>
lines_after(ls, target, returned) ==
    IF target = "lines" THEN ls \o written(returned) ELSE ls

----------------------------------------------------------------------------
(* The documents and arguments the functions are called with.              *)

RECURSIVE SeqsUpTo(_, _)
SeqsUpTo(S, n) ==
    IF n = 0 THEN {<<>>}
    ELSE LET shorter == SeqsUpTo(S, n - 1)
         IN  shorter \cup {Append(s, x) : s \in {t \in shorter : Len(t) = n - 1}, x \in S}

\* The anchor "K=4" in its four whitespace variants
Anchor == <<"K", "=", "4">>
AnchorTrail == <<"K", "=", "4", " ">>
AnchorEqSp == <<"K", "=", " ", "4">>
AnchorEqSpTrail == <<"K", "=", " ", "4", " ">>
AnchorVariants == {Anchor, AnchorTrail, AnchorEqSp, AnchorEqSpTrail}

\* Documents of anchor lines, terminator lines ("T") and other lines
TextLines == AnchorVariants \cup {<<"T">>, <<"b">>}
TextDocs == SeqsUpTo(TextLines, MaxLen)

\* Documents of key=value lines: a value that holds the token, a token
\* before the key
KeyLines == {Anchor, <<"K", "=", "4", "=", "2">>, <<"x", "=", "K", "=", "4">>, <<"b">>}
KeyDocs == SeqsUpTo(KeyLines, MaxLen)

\* Documents with empty lines: the anchor, another line, the empty line
BlankLines == {Anchor, AnchorTrail, <<"b">>, <<>>}
BlankDocs == SeqsUpTo(BlankLines, MaxLen)

\* -1.5, 12345678 and 2055434.1
Numbers ==
    { [neg |-> TRUE, int |-> <<"1">>, frac |-> <<"5">>],
      [neg |-> FALSE, int |-> <<"1", "2", "3", "4", "5", "6", "7", "8">>, frac |-> <<>>],
      [neg |-> FALSE, int |-> <<"2", "0", "5", "5", "4", "3", "4">>, frac |-> <<"1">>] }

\* What was packed: the pairs, the pair width, the fields put on one line
Packings ==
    UNION { [pairs : SeqsUpTo({v \in Numbers : Len(format(v)) <= width \div 2}
                              \X {v \in Numbers : Len(format(v)) <= width \div 2},
                              MaxPairs) \ {<<>>},
             width : {width},
             fieldsPerLine : 1..MaxFieldsPerLine]
            : width \in {WidthStaElev, WidthCoords} }

NotPacked == [pairs |-> <<>>, width |-> 0, fieldsPerLine |-> 0]

Idle == [kind |-> "idle"]

----------------------------------------------------------------------------
(* The calls.  A call is made on the lines as they stand and ends with its  *)
(* result; Return hands the result back, and the next call can be made.    *)

CallHandleSpaces ==
    /\ result = Idle
    /\ \E line \in AnchorVariants \cup {<<"b">>} :
        /\ call' = [op |-> "handle_spaces", line |-> line]
        /\ result' = handle_spaces(line, lines)
    /\ UNCHANGED <<lines, packed, crs, _concave_hull, s3_client, kwargs, keys,
                 tries, huc8, requests>>

CallTextBlockFromStartEndStr ==
    /\ result = Idle
    /\ \E start_str \in {Anchor, AnchorEqSpTrail},
          end_strs \in {<< <<"T">> >>, << <<"T">>, <<"b">> >>},
          additional_lines \in (-1)..MaxAdd :
        /\ call' = [op |-> "text_block_from_start_end_str", start_str |-> start_str,
                    end_strs |-> end_strs, additional_lines |-> additional_lines]
        /\ result' = text_block_from_start_end_str(start_str, end_strs, lines,
                                                   additional_lines)
    /\ UNCHANGED <<lines, packed, crs, _concave_hull, s3_client, kwargs, keys,
                 tries, huc8, requests>>

CallTextBlockFromStartStrLength ==
    /\ result = Idle
    /\ \E start_str \in {Anchor, AnchorEqSpTrail}, number_of_lines \in 0..MaxCount :
        /\ call' = [op |-> "text_block_from_start_str_length", start_str |-> start_str,
                    number_of_lines |-> number_of_lines]
        /\ result' = text_block_from_start_str_length(start_str, number_of_lines, lines)
    /\ UNCHANGED <<lines, packed, crs, _concave_hull, s3_client, kwargs, keys,
                 tries, huc8, requests>>

CallTextBlockFromStartStrToEmptyLine ==
    /\ result = Idle
    /\ \E start_str \in {Anchor, AnchorEqSpTrail} :
        /\ call' = [op |-> "text_block_from_start_str_to_empty_line",
                    start_str |-> start_str]
        /\ result' = text_block_from_start_str_to_empty_line(start_str, lines)
    /\ UNCHANGED <<lines, packed, crs, _concave_hull, s3_client, kwargs, keys,
                 tries, huc8, requests>>

CallSearchContents ==
    /\ result = Idle
    /\ \E search_string \in {<<"K">>, <<"x">>}, expect_one \in BOOLEAN :
        /\ call' = [op |-> "search_contents", search_string |-> search_string,
                    token |-> <<"=">>, expect_one |-> expect_one]
        /\ result' = search_contents(lines, search_string, <<"=">>, expect_one)
    /\ UNCHANGED <<lines, packed, crs, _concave_hull, s3_client, kwargs, keys,
                 tries, huc8, requests>>

CallDataPairsFromTextBlock ==
    /\ result = Idle
    /\ \E width \in {WidthStaElev, WidthCoords} :
        /\ call' = [op |-> "data_pairs_from_text_block", width |-> width]
        /\ result' = data_pairs_from_text_block(lines, width)
    /\ UNCHANGED <<lines, packed, crs, _concave_hull, s3_client, kwargs, keys,
                 tries, huc8, requests>>

Return ==
    /\ result # Idle
    /\ call' = [op |-> "none"]
    /\ result' = Idle
    /\ UNCHANGED <<lines, packed, crs, _concave_hull, s3_client, kwargs, keys,
                 tries, huc8, requests>>

Init ==
    /\ \/ lines \in TextDocs \cup KeyDocs \cup BlankDocs /\ packed = NotPacked
       \/ packed \in Packings /\ lines = Pack(packed.pairs, packed.width, packed.fieldsPerLine)
    /\ call = [op |-> "none"]
    /\ result = Idle
    /\ crs = [kind |-> "None"]
    /\ _concave_hull = [kind |-> "None"]
    /\ s3_client = <<>>
    /\ kwargs = [kind |-> "None"]
    /\ keys = <<>>
    /\ tries = 0
    /\ huc8 = None
    /\ requests = 0

Next ==
    \/ CallHandleSpaces
    \/ CallTextBlockFromStartEndStr
    \/ CallTextBlockFromStartStrLength
    \/ CallTextBlockFromStartStrToEmptyLine
    \/ CallSearchContents
    \/ CallDataPairsFromTextBlock
    \/ Return

Spec == Init /\ [][Next]_vars

----------------------------------------------------------------------------
(* One reach of a geometry file: the River Reach line, then node headers   *)
(* (cross sections of type 1, bridges of type 3, a node of type 7) at      *)
(* stations 9, 5 and 5.0, and other lines.  The Reach is built from these  *)
(* lines; its cross_sections and structures are asked for.                 *)

MaxNodes == 3

RiverReachName == <<"R", " ", ",", "A", " ">>

NodeHeader(type, station) == <<" ">> \o type \o <<" ", ",">> \o station \o <<",", ",", ",">>
NodeLine(type, station) == TypeRMLengthLChR \o <<" ", "=">> \o NodeHeader(type, station)

NodeLines ==
    {NodeLine(t, s) : t \in {<<"1">>, <<"3">>, <<"7">>}, s \in {<<"9">>, <<"5">>}}
    \cup {NodeLine(<<"1">>, <<"5", ".", "0">>), NodeLine(<<"3">>, <<"5", ".", "0">>), <<"b">>}

ReachDocs ==
    {<<RiverReach \o <<"=">> \o RiverReachName>> \o nodes : nodes \in SeqsUpTo(NodeLines, MaxNodes)}

CallReachNodes ==
    /\ result = Idle
    /\ call' = [op |-> "Reach.reach_nodes"]
    /\ result' = reach_nodes(Reach(lines, RiverReachName, crs))
    /\ UNCHANGED <<lines, packed, crs, _concave_hull, s3_client, kwargs, keys,
                 tries, huc8, requests>>

CallReachCrossSections ==
    /\ result = Idle
    /\ call' = [op |-> "Reach.cross_sections"]
    /\ result' = Reach_cross_sections(Reach(lines, RiverReachName, crs))
    /\ UNCHANGED <<lines, packed, crs, _concave_hull, s3_client, kwargs, keys,
                 tries, huc8, requests>>

CallReachStructures ==
    /\ result = Idle
    /\ call' = [op |-> "Reach.structures"]
    /\ result' = Reach_structures(Reach(lines, RiverReachName, crs))
    /\ UNCHANGED <<lines, packed, crs, _concave_hull, s3_client, kwargs, keys,
                 tries, huc8, requests>>

InitReach ==
    /\ lines \in ReachDocs
    /\ packed = NotPacked
    /\ call = [op |-> "none"]
    /\ result = Idle
    /\ crs = Crs("ft")
    /\ _concave_hull = None
    /\ s3_client = <<>>
    /\ kwargs = None
    /\ keys = <<>>
    /\ tries = 0
    /\ huc8 = None
    /\ requests = 0

NextReach ==
    \/ CallReachNodes
    \/ CallReachCrossSections
    \/ CallReachStructures
    \/ Return

SpecReach == InitReach /\ [][NextReach]_vars
----------------------------------------------------------------------------
(* A geometry asset: its contents are River Reach lines of two rivers, a   *)
(* cross-section header, a bridge header and a junction line.  The asset   *)
(* starts without a crs; set_crs and the accessors are called on it.       *)

AssetLines ==
    { RiverReach \o <<"=", "R", " ", ",", "A", " ">>,
      RiverReach \o <<"=", "R", " ", ",", "B", " ">>,
      RiverReach \o <<"=", "S", " ", ",", "A", " ">>,
      NodeLine(<<"1">>, <<"9">>),
      <<"J", "u", "n", "c", "t", " ", "N", "a", "m", "e", "=", "J">> }

AssetDocs == SeqsUpTo(AssetLines, MaxLen)

CrsValues == {None, Crs("ft"), Crs("m"), Crs("km"), Crs("-")}

GeometryAsset == [contents |-> lines, crs |-> crs, _concave_hull |-> _concave_hull]

SetCrs ==
    /\ result = Idle
    /\ \E c \in CrsValues :
        /\ call' = [op |-> "GeometryAsset.set_crs", crs |-> c]
        /\ crs' = c
    /\ result' = None
    /\ UNCHANGED <<lines, packed, _concave_hull, s3_client, kwargs, keys,
                 tries, huc8, requests>>

CallReaches ==
    /\ result = Idle
    /\ call' = [op |-> "GeometryAsset.reaches"]
    /\ result' = GeometryAsset_reaches(GeometryAsset)
    /\ UNCHANGED <<lines, packed, crs, _concave_hull, s3_client, kwargs, keys,
                 tries, huc8, requests>>

CallRivers ==
    /\ result = Idle
    /\ call' = [op |-> "GeometryAsset.rivers"]
    /\ result' = GeometryAsset_rivers(GeometryAsset)
    /\ UNCHANGED <<lines, packed, crs, _concave_hull, s3_client, kwargs, keys,
                 tries, huc8, requests>>

CallJunctions ==
    /\ result = Idle
    /\ call' = [op |-> "GeometryAsset.junctions"]
    /\ result' = GeometryAsset_junctions(GeometryAsset)
    /\ UNCHANGED <<lines, packed, crs, _concave_hull, s3_client, kwargs, keys,
                 tries, huc8, requests>>

CallCrossSections ==
    /\ result = Idle
    /\ call' = [op |-> "GeometryAsset.cross_sections"]
    /\ result' = GeometryAsset_cross_sections(GeometryAsset)
    /\ UNCHANGED <<lines, packed, crs, _concave_hull, s3_client, kwargs, keys,
                 tries, huc8, requests>>

CallStructures ==
    /\ result = Idle
    /\ call' = [op |-> "GeometryAsset.structures"]
    /\ result' = GeometryAsset_structures(GeometryAsset)
    /\ UNCHANGED <<lines, packed, crs, _concave_hull, s3_client, kwargs, keys,
                 tries, huc8, requests>>

CallReachGdf ==
    /\ result = Idle
    /\ \E framed \in BOOLEAN :
        /\ call' = [op |-> "GeometryAsset.reach_gdf", framed |-> framed]
        /\ result' = GeometryAsset_reach_gdf(GeometryAsset, framed)
    /\ UNCHANGED <<lines, packed, crs, _concave_hull, s3_client, kwargs, keys,
                 tries, huc8, requests>>

CallXsGdf ==
    /\ result = Idle
    /\ \E framed \in BOOLEAN :
        /\ call' = [op |-> "GeometryAsset.xs_gdf", framed |-> framed]
        /\ result' = GeometryAsset_xs_gdf(GeometryAsset, framed)
    /\ UNCHANGED <<lines, packed, crs, _concave_hull, s3_client, kwargs, keys,
                 tries, huc8, requests>>

CallConcaveHull ==
    /\ result = Idle
    /\ \E framed \in BOOLEAN :
        /\ call' = [op |-> "GeometryAsset.concave_hull", framed |-> framed]
        /\ result' = concave_hull(GeometryAsset, framed).returns
        /\ _concave_hull' = concave_hull(GeometryAsset, framed)._concave_hull
    /\ UNCHANGED <<lines, packed, crs, s3_client, kwargs, keys,
                 tries, huc8, requests>>

CallGetRiverMiles ==
    /\ result = Idle
    /\ call' = [op |-> "GeometryAsset.get_river_miles"]
    /\ result' = get_river_miles(GeometryAsset)
    /\ UNCHANGED <<lines, packed, crs, _concave_hull, s3_client, kwargs, keys,
                 tries, huc8, requests>>

InitAsset ==
    /\ lines \in AssetDocs
    /\ packed = NotPacked
    /\ call = [op |-> "none"]
    /\ result = Idle
    /\ crs = None
    /\ _concave_hull = None
    /\ s3_client = <<>>
    /\ kwargs = None
    /\ keys = <<>>
    /\ tries = 0
    /\ huc8 = None
    /\ requests = 0

NextAsset ==
    \/ SetCrs
    \/ CallReaches
    \/ CallRivers
    \/ CallJunctions
    \/ CallCrossSections
    \/ CallStructures
    \/ CallReachGdf
    \/ CallXsGdf
    \/ CallConcaveHull
    \/ CallGetRiverMiles
    \/ Return

SpecAsset == InitAsset /\ [][NextAsset]_vars
----------------------------------------------------------------------------
(* URLs of a bucket and keys, converted and converted back; and a bucket   *)
(* of some of four objects, listed under a prefix page by page.            *)

MaxKeyParts == 2

BucketNames == {<<"b", "k", "t">>, <<"b", "k", "t">> \o AmazonHost}
KeyParts == {<<"k">>, <<"/">>, S3Scheme \o <<"b", "k", "t">>}
ObjectKeys == {concat(parts) : parts \in SeqsUpTo(KeyParts, MaxKeyParts)}
Urls ==
    {S3Scheme \o b \o <<"/">> \o k : b \in BucketNames, k \in ObjectKeys}
    \cup {HttpsScheme \o b \o AmazonHost \o <<"/">> \o k : b \in BucketNames, k \in ObjectKeys}
    \cup {<<"f", "t", "p", ":", "/", "/", "k">>}
MinioEndpoint == <<"h", "t", "t", "p", ":", "/", "/", "m", ":", "9">>

\* The objects a bucket can hold, in the order the service lists them
AllObjects ==
    << <<"p", "/", "a", ".", "t">>, <<"p", "/", "b", ".", "j">>,
       <<"p", "/", "c", ".", "t">>, <<"q", "/", "a", ".", "t">> >>
Listings ==
    {SelectSeq(AllObjects, LAMBDA k : k \in held) :
        held \in SUBSET {AllObjects[i] : i \in 1..Len(AllObjects)}}
Prefixes == {<<"p", "/">>, <<"q", "/">>, <<"z", "/">>}
Suffixes == {<<>>, <<".", "t">>}

CallS3PathPublicUrlConverter ==
    /\ result = Idle
    /\ \E url \in Urls, minio_mode \in BOOLEAN :
        /\ call' = [op |-> "s3_path_public_url_converter", url |-> url,
                    minio_mode |-> minio_mode, converted_from |-> <<>>]
        /\ result' = s3_path_public_url_converter(url, minio_mode, MinioEndpoint)
    /\ UNCHANGED <<lines, packed, crs, _concave_hull, s3_client, kwargs, keys,
                 tries, huc8, requests>>

\* The converter called on the URL it has just returned
CallS3PathPublicUrlConverterAgain ==
    /\ call.op = "s3_path_public_url_converter"
    /\ call.converted_from = <<>>
    /\ result.kind = "str"
    /\ call' = [op |-> "s3_path_public_url_converter", url |-> result.val,
                minio_mode |-> call.minio_mode, converted_from |-> call.url]
    /\ result' = s3_path_public_url_converter(result.val, call.minio_mode, MinioEndpoint)
    /\ UNCHANGED <<lines, packed, crs, _concave_hull, s3_client, kwargs, keys,
                 tries, huc8, requests>>

\* list_keys up to its loop: lines 242-243
CallListKeys ==
    /\ result = Idle
    /\ \E prefix \in Prefixes, suffix \in Suffixes :
        /\ call' = [op |-> "list_keys", prefix |-> prefix, suffix |-> suffix]
        /\ kwargs' = [Bucket |-> "bkt", Prefix |-> prefix]
    /\ keys' = <<>>
    /\ result' = [kind |-> "running"]
    /\ UNCHANGED <<lines, packed, crs, _concave_hull, s3_client,
                 tries, huc8, requests>>

\* One pass of the loop of list_keys; the last pass returns the keys
ListKeysPass ==
    /\ call.op = "list_keys"
    /\ result = [kind |-> "running"]
    /\ keys' = list_keys_pass(list_objects_v2(s3_client, kwargs), kwargs, keys,
                              call.suffix).keys
    /\ kwargs' = list_keys_pass(list_objects_v2(s3_client, kwargs), kwargs, keys,
                                call.suffix).kwargs
    /\ result' = list_keys_pass(list_objects_v2(s3_client, kwargs), kwargs, keys,
                                call.suffix).result
    /\ UNCHANGED <<lines, packed, call, crs, _concave_hull, s3_client,
                 tries, huc8, requests>>

\* A call that has ended hands its result back
ReturnS3 ==
    /\ result.kind \notin {"idle", "running"}
    /\ call' = [op |-> "none"]
    /\ result' = Idle
    /\ UNCHANGED <<lines, packed, crs, _concave_hull, s3_client, kwargs, keys,
                 tries, huc8, requests>>

InitS3 ==
    /\ lines = <<>>
    /\ packed = NotPacked
    /\ call = [op |-> "none"]
    /\ result = Idle
    /\ crs = None
    /\ _concave_hull = None
    /\ s3_client \in Listings
    /\ kwargs = None
    /\ keys = <<>>
    /\ tries = 0
    /\ huc8 = None
    /\ requests = 0

NextS3 ==
    \/ CallS3PathPublicUrlConverter
    \/ CallS3PathPublicUrlConverterAgain
    \/ CallListKeys
    \/ ListKeysPass
    \/ ReturnS3

SpecS3 == InitS3 /\ [][NextS3]_vars
----------------------------------------------------------------------------
(* A geometry file of two reaches of one river: River Reach lines of the   *)
(* reaches A and B, cross sections at the stations 9 and 5, a bridge at    *)
(* station 5 and another line.  A Reach is built from the file for either  *)
(* name, and its cross_sections and structures are asked for.              *)

MaxNetworkLen == 4

ReachNames == {<<"R", " ", ",", "A", " ">>, <<"R", " ", ",", "B", " ">>}

NetworkLines ==
    {RiverReach \o <<"=">> \o n : n \in ReachNames}
    \cup {NodeLine(<<"1">>, <<"9">>), NodeLine(<<"1">>, <<"5">>), NodeLine(<<"3">>, <<"5">>),
          <<"b">>}

NetworkDocs == SeqsUpTo(NetworkLines, MaxNetworkLen)

\* Reach(...) of a name the file lists, as GeometryAsset.reaches builds it
CallReach ==
    /\ result = Idle
    /\ \E river_reach \in ReachNames :
        /\ list_in(river_reach, search_contents(lines, RiverReach, <<"=">>, FALSE).val)
        /\ call' = [op |-> "Reach", river_reach |-> river_reach]
        /\ result' = Reach(lines, river_reach, crs)
    /\ UNCHANGED <<lines, packed, crs, _concave_hull, s3_client, kwargs, keys,
                 tries, huc8, requests>>

CallCrossSectionsOfReach ==
    /\ result = Idle
    /\ \E river_reach \in ReachNames :
        /\ Reach(lines, river_reach, crs).kind = "Reach"
        /\ call' = [op |-> "Reach.cross_sections", river_reach |-> river_reach]
        /\ result' = Reach_cross_sections(Reach(lines, river_reach, crs))
    /\ UNCHANGED <<lines, packed, crs, _concave_hull, s3_client, kwargs, keys,
                 tries, huc8, requests>>

CallStructuresOfReach ==
    /\ result = Idle
    /\ \E river_reach \in ReachNames :
        /\ Reach(lines, river_reach, crs).kind = "Reach"
        /\ call' = [op |-> "Reach.structures", river_reach |-> river_reach]
        /\ result' = Reach_structures(Reach(lines, river_reach, crs))
    /\ UNCHANGED <<lines, packed, crs, _concave_hull, s3_client, kwargs, keys,
                 tries, huc8, requests>>

InitNetwork ==
    /\ lines \in NetworkDocs
    /\ packed = NotPacked
    /\ call = [op |-> "none"]
    /\ result = Idle
    /\ crs = Crs("ft")
    /\ _concave_hull = None
    /\ s3_client = <<>>
    /\ kwargs = None
    /\ keys = <<>>
    /\ tries = 0
    /\ huc8 = None
    /\ requests = 0

NextNetwork ==
    \/ CallReach
    \/ CallCrossSectionsOfReach
    \/ CallStructuresOfReach
    \/ Return

SpecNetwork == InitNetwork /\ [][NextNetwork]_vars

----------------------------------------------------------------------------
(* A cross section and a reach with counted blocks.  The cross section is  *)
(* its node header, a cut line that declares a count (a number, "x", or no *)
(* cut line at all) with the lines of some coordinates, a #Sta/Elev line   *)
(* that declares a count with the lines of some points, and perhaps a line *)
(* after them.  The reach is its River Reach line, a Reach XY line and the *)
(* lines of some coordinates.  The declared count and the pairs that are   *)
(* there are chosen apart.                                                 *)

MaxXsPairs == 3

\* 0, 2.5, 10 and 20
Zero == [neg |-> FALSE, int |-> <<>>, frac |-> <<>>]
TwoAndAHalf == [neg |-> FALSE, int |-> <<"2">>, frac |-> <<"5">>]
Ten == [neg |-> FALSE, int |-> <<"1", "0">>, frac |-> <<>>]
Twenty == [neg |-> FALSE, int |-> <<"2", "0">>, frac |-> <<>>]
MinusOneAndAHalf == [neg |-> TRUE, int |-> <<"1">>, frac |-> <<"5">>]

\* The k-th coordinate and the k-th station-elevation point
Coordinate(k) == <<[neg |-> FALSE, int |-> <<"2", "0", "5", "5", "4", "3", "4">>, frac |-> <<"1">>],
                   [neg |-> FALSE, int |-> str_int(k), frac |-> <<>>]>>
Point(k) == <<[neg |-> FALSE, int |-> str_int(k), frac |-> <<>>],
              IF k % 3 = 1 THEN TwoAndAHalf ELSE IF k % 3 = 2 THEN MinusOneAndAHalf ELSE Ten>>

DeclaredCounts == {str_int(n) : n \in 1..MaxXsPairs} \cup {<<"x">>}
Absent == <<"a", "b", "s", "e", "n", "t">>

CutSection(declared, k) ==
    IF declared = Absent THEN <<>>
    ELSE <<XSGISCutLine \o <<"=">> \o declared>>
         \o Pack([i \in 1..k |-> Coordinate(i)], WidthCoords, 4)

StaSection(declared, j) ==
    <<StaElev \o <<"=", " ">> \o declared \o <<" ">>>>
    \o Pack([i \in 1..j |-> Point(i)], WidthStaElev, 10)

ReachSection(declared, k) ==
    <<ReachXY \o <<"=", " ">> \o declared \o <<" ">>>>
    \o Pack([i \in 1..k |-> Coordinate(i)], WidthCoords, 4)

Trail(after) == IF after THEN << <<"b">> >> ELSE <<>>

XsDocs ==
    [of : {"XS"}, cut : DeclaredCounts \cup {Absent}, coords : 0..MaxXsPairs,
     sta : DeclaredCounts, points : 0..MaxXsPairs, after : BOOLEAN]

ReachXyDocs ==
    [of : {"Reach"}, cut : DeclaredCounts, coords : 0..MaxXsPairs, sta : {Absent},
     points : {0}, after : BOOLEAN]

LinesOf(doc) ==
    IF doc.of = "XS"
    THEN <<NodeLine(<<"1">>, <<"9">>)>> \o CutSection(doc.cut, doc.coords)
         \o StaSection(doc.sta, doc.points) \o Trail(doc.after)
    ELSE <<RiverReach \o <<"=">> \o RiverReachName>> \o ReachSection(doc.cut, doc.coords)
         \o Trail(doc.after)

\* The cross section and the reach the accessors are called on
SelfXS == XS(lines, RiverReachName, <<"R">>, <<"A">>, crs)
SelfReach == Reach(lines, RiverReachName, crs)

CallXsNumberOfCoords ==
    /\ result = Idle
    /\ packed.of = "XS"
    /\ call' = [op |-> "XS.number_of_coords"]
    /\ result' = XS_number_of_coords(SelfXS)
    /\ UNCHANGED <<lines, packed, crs, _concave_hull, s3_client, kwargs, keys,
                 tries, huc8, requests>>

CallXsCoords ==
    /\ result = Idle
    /\ packed.of = "XS"
    /\ call' = [op |-> "XS.coords"]
    /\ result' = XS_coords(SelfXS)
    /\ UNCHANGED <<lines, packed, crs, _concave_hull, s3_client, kwargs, keys,
                 tries, huc8, requests>>

CallXsNumberOfStationElevationPoints ==
    /\ result = Idle
    /\ packed.of = "XS"
    /\ call' = [op |-> "XS.number_of_station_elevation_points"]
    /\ result' = XS_number_of_station_elevation_points(SelfXS)
    /\ UNCHANGED <<lines, packed, crs, _concave_hull, s3_client, kwargs, keys,
                 tries, huc8, requests>>

CallXsStationElevationPoints ==
    /\ result = Idle
    /\ packed.of = "XS"
    /\ call' = [op |-> "XS.station_elevation_points"]
    /\ result' = XS_station_elevation_points(SelfXS)
    /\ UNCHANGED <<lines, packed, crs, _concave_hull, s3_client, kwargs, keys,
                 tries, huc8, requests>>

CallXsThalweg ==
    /\ result = Idle
    /\ packed.of = "XS"
    /\ call' = [op |-> "XS.thalweg"]
    /\ result' = XS_thalweg(SelfXS)
    /\ UNCHANGED <<lines, packed, crs, _concave_hull, s3_client, kwargs, keys,
                 tries, huc8, requests>>

CallXsMaxElevation ==
    /\ result = Idle
    /\ packed.of = "XS"
    /\ call' = [op |-> "XS.xs_max_elevation"]
    /\ result' = XS_xs_max_elevation(SelfXS)
    /\ UNCHANGED <<lines, packed, crs, _concave_hull, s3_client, kwargs, keys,
                 tries, huc8, requests>>

CallReachNumberOfCoords ==
    /\ result = Idle
    /\ packed.of = "Reach"
    /\ call' = [op |-> "Reach.number_of_coords"]
    /\ result' = Reach_number_of_coords(SelfReach)
    /\ UNCHANGED <<lines, packed, crs, _concave_hull, s3_client, kwargs, keys,
                 tries, huc8, requests>>

CallReachCoords ==
    /\ result = Idle
    /\ packed.of = "Reach"
    /\ call' = [op |-> "Reach.coords"]
    /\ result' = Reach_coords(SelfReach)
    /\ UNCHANGED <<lines, packed, crs, _concave_hull, s3_client, kwargs, keys,
                 tries, huc8, requests>>

InitXS ==
    /\ packed \in XsDocs \cup ReachXyDocs
    /\ lines = LinesOf(packed)
    /\ call = [op |-> "none"]
    /\ result = Idle
    /\ crs = Crs("ft")
    /\ _concave_hull = None
    /\ s3_client = <<>>
    /\ kwargs = None
    /\ keys = <<>>
    /\ tries = 0
    /\ huc8 = None
    /\ requests = 0

NextXS ==
    \/ CallXsNumberOfCoords
    \/ CallXsCoords
    \/ CallXsNumberOfStationElevationPoints
    \/ CallXsStationElevationPoints
    \/ CallXsThalweg
    \/ CallXsMaxElevation
    \/ CallReachNumberOfCoords
    \/ CallReachCoords
    \/ Return

SpecXS == InitXS /\ [][NextXS]_vars

----------------------------------------------------------------------------
(* A geometry file read again and again: River Reach lines, a cross        *)
(* section, a junction, storage areas.  The accessors of the asset and the *)
(* extractors are called on it in any order; each call leaves the file as  *)
(* the statements of the function leave it.                                *)

JunctNameJ == <<"J", "u", "n", "c", "t", " ", "N", "a", "m", "e", "=", "J">>

DocumentLines ==
    { RiverReach \o <<"=", "R", " ", ",", "A", " ">>,
      RiverReach \o <<"=", "R", " ", ",", "B", " ">>,
      NodeLine(<<"1">>, <<"9">>),
      JunctNameJ,
      StorageAreaIs2D \o <<"-", "1">>,
      StorageAreaIs2D \o <<"0">> }
Documents == SeqsUpTo(DocumentLines, MaxLen)

\* The lines the extractors are asked to start from
StartStrs == {RiverReach \o <<"=", "R", " ", ",", "A", " ">>, JunctNameJ}

ReadReaches ==
    /\ result = Idle
    /\ call' = [op |-> "GeometryAsset.reaches"]
    /\ result' = GeometryAsset_reaches(GeometryAsset)
    /\ lines' = lines_after(lines, WritesTo.reaches, GeometryAsset_reaches(GeometryAsset))
    /\ UNCHANGED <<packed, crs, _concave_hull, s3_client, kwargs, keys,
                 tries, huc8, requests>>

ReadRivers ==
    /\ result = Idle
    /\ call' = [op |-> "GeometryAsset.rivers"]
    /\ result' = GeometryAsset_rivers(GeometryAsset)
    /\ lines' = lines_after(lines, WritesTo.rivers, GeometryAsset_rivers(GeometryAsset))
    /\ UNCHANGED <<packed, crs, _concave_hull, s3_client, kwargs, keys,
                 tries, huc8, requests>>

ReadJunctions ==
    /\ result = Idle
    /\ call' = [op |-> "GeometryAsset.junctions"]
    /\ result' = GeometryAsset_junctions(GeometryAsset)
    /\ lines' = lines_after(lines, WritesTo.junctions, GeometryAsset_junctions(GeometryAsset))
    /\ UNCHANGED <<packed, crs, _concave_hull, s3_client, kwargs, keys,
                 tries, huc8, requests>>

ReadCrossSections ==
    /\ result = Idle
    /\ call' = [op |-> "GeometryAsset.cross_sections"]
    /\ result' = GeometryAsset_cross_sections(GeometryAsset)
    /\ lines' = lines_after(lines, WritesTo.cross_sections,
                            GeometryAsset_cross_sections(GeometryAsset))
    /\ UNCHANGED <<packed, crs, _concave_hull, s3_client, kwargs, keys,
                 tries, huc8, requests>>

ReadStructures ==
    /\ result = Idle
    /\ call' = [op |-> "GeometryAsset.structures"]
    /\ result' = GeometryAsset_structures(GeometryAsset)
    /\ lines' = lines_after(lines, WritesTo.structures, GeometryAsset_structures(GeometryAsset))
    /\ UNCHANGED <<packed, crs, _concave_hull, s3_client, kwargs, keys,
                 tries, huc8, requests>>

ReadHas2d ==
    /\ result = Idle
    /\ call' = [op |-> "GeometryAsset.has_2d"]
    /\ result' = has_2d(GeometryAsset)
    /\ UNCHANGED <<lines, packed, crs, _concave_hull, s3_client, kwargs, keys,
                 tries, huc8, requests>>

ReadHandleSpaces ==
    /\ result = Idle
    /\ \E line \in StartStrs :
        /\ call' = [op |-> "handle_spaces", line |-> line]
        /\ result' = handle_spaces(line, lines)
    /\ UNCHANGED <<lines, packed, crs, _concave_hull, s3_client, kwargs, keys,
                 tries, huc8, requests>>

ReadTextBlockFromStartEndStr ==
    /\ result = Idle
    /\ \E start_str \in StartStrs, additional_lines \in {-1, 0} :
        /\ call' = [op |-> "text_block_from_start_end_str", start_str |-> start_str,
                    additional_lines |-> additional_lines]
        /\ result' = text_block_from_start_end_str(start_str, <<RiverReach>>, lines,
                                                   additional_lines)
    /\ UNCHANGED <<lines, packed, crs, _concave_hull, s3_client, kwargs, keys,
                 tries, huc8, requests>>

ReadTextBlockFromStartStrLength ==
    /\ result = Idle
    /\ \E start_str \in StartStrs, number_of_lines \in 0..MaxCount :
        /\ call' = [op |-> "text_block_from_start_str_length", start_str |-> start_str,
                    number_of_lines |-> number_of_lines]
        /\ result' = text_block_from_start_str_length(start_str, number_of_lines, lines)
        /\ lines' = lines_after(lines, WritesTo.text_block_from_start_str_length,
                                text_block_from_start_str_length(start_str,
                                                                 number_of_lines, lines))
    /\ UNCHANGED <<packed, crs, _concave_hull, s3_client, kwargs, keys,
                 tries, huc8, requests>>

ReadTextBlockFromStartStrToEmptyLine ==
    /\ result = Idle
    /\ \E start_str \in StartStrs :
        /\ call' = [op |-> "text_block_from_start_str_to_empty_line",
                    start_str |-> start_str]
        /\ result' = text_block_from_start_str_to_empty_line(start_str, lines)
        /\ lines' = lines_after(lines, WritesTo.text_block_from_start_str_to_empty_line,
                                text_block_from_start_str_to_empty_line(start_str, lines))
    /\ UNCHANGED <<packed, crs, _concave_hull, s3_client, kwargs, keys,
                 tries, huc8, requests>>

ReadSearchContents ==
    /\ result = Idle
    /\ \E search_string \in {RiverReach, TypeRMLengthLChR \o <<" ">>},
          expect_one \in BOOLEAN :
        /\ call' = [op |-> "search_contents", search_string |-> search_string,
                    token |-> <<"=">>, expect_one |-> expect_one]
        /\ result' = search_contents(lines, search_string, <<"=">>, expect_one)
        /\ lines' = lines_after(lines, WritesTo.search_contents,
                                search_contents(lines, search_string, <<"=">>, expect_one))
    /\ UNCHANGED <<packed, crs, _concave_hull, s3_client, kwargs, keys,
                 tries, huc8, requests>>

ReadDataPairsFromTextBlock ==
    /\ result = Idle
    /\ \E width \in {WidthStaElev, WidthCoords} :
        /\ call' = [op |-> "data_pairs_from_text_block", width |-> width]
        /\ result' = data_pairs_from_text_block(lines, width)
        /\ lines' = lines_after(lines, WritesTo.data_pairs_from_text_block,
                                data_pairs_from_text_block(lines, width))
    /\ UNCHANGED <<packed, crs, _concave_hull, s3_client, kwargs, keys,
                 tries, huc8, requests>>

InitDocument ==
    /\ lines \in Documents
    /\ packed = NotPacked
    /\ call = [op |-> "none"]
    /\ result = Idle
    /\ crs = Crs("ft")
    /\ _concave_hull = None
    /\ s3_client = <<>>
    /\ kwargs = None
    /\ keys = <<>>
    /\ tries = 0
    /\ huc8 = None
    /\ requests = 0

NextDocument ==
    \/ ReadReaches
    \/ ReadRivers
    \/ ReadJunctions
    \/ ReadCrossSections
    \/ ReadStructures
    \/ ReadHas2d
    \/ ReadHandleSpaces
    \/ ReadTextBlockFromStartEndStr
    \/ ReadTextBlockFromStartStrLength
    \/ ReadTextBlockFromStartStrToEmptyLine
    \/ ReadSearchContents
    \/ ReadDataPairsFromTextBlock
    \/ Return

SpecDocument == InitDocument /\ [][NextDocument]_vars

----------------------------------------------------------------------------
(* get_huc8: the HUC-8 of a point, asked of a remote service.  The service *)
(* answers each request as it likes: with a document that holds a code,    *)
(* with a document that holds none, with a body that is no JSON, or the    *)
(* request itself fails.                                                   *)

MaxRequests == 8

Huc8Codes == {"02070010", "12040104"}

Feature(code) == [attributes |-> [huc8 |-> code]]

Responses ==
    {[kind |-> "json", body |-> [features |-> <<Feature(c)>>]] : c \in Huc8Codes}
        \cup {[kind |-> "json", body |-> [features |-> <<>>]],
              [kind |-> "json", body |-> [error |-> "400"]],
              [kind |-> "html"]}

\* what requests.get does with a request: a response, or it raises
Answers == Responses \cup {[kind |-> "ConnectionError"]}

\* resp.json()["features"][0]["attributes"]["huc8"]
huc8_of(resp) ==
    IF resp.kind # "json" THEN [kind |-> "JSONDecodeError"]
    ELSE IF "features" \notin DOMAIN resp.body THEN [kind |-> "KeyError"]
    ELSE IF Len(resp.body.features) = 0 THEN [kind |-> "IndexError"]
    ELSE [kind |-> "str", val |-> resp.body.features[1].attributes.huc8]

Running == [kind |-> "running"]

\* get_huc8(x, y), up to the loop
CallGetHuc8 ==
    /\ result = Idle
    /\ call' = [op |-> "get_huc8"]
    /\ huc8' = None
    /\ tries' = 0
    /\ requests' = 0
    /\ result' = Running
    /\ UNCHANGED <<lines, packed, crs, _concave_hull, s3_client, kwargs, keys>>

\* One pass of the loop: a request, and the try statement on its response
GetHuc8Pass ==
    /\ call.op = "get_huc8"
    /\ result = Running
    /\ tries < 5
    /\ requests < MaxRequests
    /\ requests' = requests + 1
    /\ \E resp \in Answers :
        IF resp.kind = "ConnectionError"
        THEN /\ result' = [kind |-> "ConnectionError"]
             /\ UNCHANGED <<huc8, tries>>
        ELSE IF huc8_of(resp).kind = "str"
        THEN /\ huc8' = huc8_of(resp)
             /\ UNCHANGED <<tries, result>>
        ELSE /\ tries' = tries + 1
             /\ UNCHANGED <<huc8, result>>
    /\ UNCHANGED <<lines, packed, call, crs, _concave_hull, s3_client, kwargs, keys>>

\* The loop is left, and huc8 is returned
GetHuc8Return ==
    /\ call.op = "get_huc8"
    /\ result = Running
    /\ ~(tries < 5)
    /\ result' = huc8
    /\ UNCHANGED <<lines, packed, call, crs, _concave_hull, s3_client, kwargs, keys,
                   tries, huc8, requests>>

InitHuc8 ==
    /\ lines = <<>>
    /\ packed = NotPacked
    /\ call = [op |-> "none"]
    /\ result = Idle
    /\ crs = None
    /\ _concave_hull = None
    /\ s3_client = <<>>
    /\ kwargs = None
    /\ keys = <<>>
    /\ tries = 0
    /\ huc8 = None
    /\ requests = 0

NextHuc8 ==
    \/ CallGetHuc8
    \/ GetHuc8Pass
    \/ GetHuc8Return
    \/ ReturnS3

SpecHuc8 == InitHuc8 /\ [][NextHuc8]_vars

----------------------------------------------------------------------------
(* RasGeomHdf.get_geom_attrs: the attributes of a geometry HDF file, read  *)
(* from the file, its Geometry group, its Structures group and the first   *)
(* group of its 2D Flow Areas.  An attribute value is a NumPy float, a NaN *)
(* or a byte string; a dict is a sequence of items in insertion order.     *)

MaxItems == 2

UpperCase == <<"A", "B", "C", "D", "E", "F", "G", "H", "I", "J", "K", "L", "M", "N", "O", "P", "Q", "R", "S", "T", "U", "V", "W", "X", "Y", "Z">>
LowerCase == <<"a", "b", "c", "d", "e", "f", "g", "h", "i", "j", "k", "l", "m", "n", "o", "p", "q", "r", "s", "t", "u", "v", "w", "x", "y", "z">>
WordCharacters == {UpperCase[i] : i \in 1..26} \cup {LowerCase[i] : i \in 1..26} \cup Digits \cup {"_"}
Whitespace == {" "}

\* re.sub(r"[^\w\s]", "", text)
RECURSIVE remove_non_word(_)
remove_non_word(text) ==
    IF text = <<>> THEN <<>>
    ELSE IF Head(text) \in WordCharacters \cup Whitespace
    THEN <<Head(text)>> \o remove_non_word(Tail(text))
    ELSE remove_non_word(Tail(text))

\* re.sub(r"\s+", "_", text)
RECURSIVE underscore_whitespace(_)
underscore_whitespace(text) ==
    IF text = <<>> THEN <<>>
    ELSE IF Head(text) \notin Whitespace
    THEN <<Head(text)>> \o underscore_whitespace(Tail(text))
    ELSE IF Len(text) > 1 /\ text[2] \in Whitespace
    THEN underscore_whitespace(Tail(text))
    ELSE <<"_">> \o underscore_whitespace(Tail(text))

\* text.lower()
lower(text) ==
    [i \in 1..Len(text) |->
        IF \E k \in 1..26 : UpperCase[k] = text[i]
        THEN LowerCase[CHOOSE k \in 1..26 : UpperCase[k] = text[i]]
        ELSE text[i]]

to_snake_case(text) == lower(underscore_whitespace(remove_non_word(text)))

StrTrue == <<"T", "r", "u", "e">>
StrFalse == <<"F", "a", "l", "s", "e">>

\* convert_hdf5_string(value), for a value that does not start as a date does
convert_hdf5_string(value) ==
    IF value = StrTrue THEN [kind |-> "bool", val |-> TRUE]
    ELSE IF value = StrFalse THEN [kind |-> "bool", val |-> FALSE]
    ELSE [kind |-> "str", val |-> value]

\* convert_hdf5_value(value), for a NumPy float, a NaN and a byte string
convert_hdf5_value(value) ==
    IF value.kind = "np.floating" /\ value.nan THEN None
    ELSE IF value.kind = "bytes" THEN convert_hdf5_string(value.val)
    ELSE [kind |-> "float", val |-> value.val]

SimulationTimeWindow == <<"S", "i", "m", "u", "l", "a", "t", "i", "o", "n", " ", "T", "i", "m", "e", " ", "W", "i", "n", "d", "o", "w">>

\* d.get(k, None), and d.pop(k, None) as it leaves d
dict_get(d, k) ==
    IF \E i \in 1..Len(d) : d[i].key = k
    THEN d[CHOOSE i \in 1..Len(d) : d[i].key = k].value
    ELSE None

dict_without(d, k) == SelectSeq(d, LAMBDA item : item.key # k)

\* The key an attribute gets: to_snake_case(k), after the prefix if there is one
attr_key(prefix, k) ==
    IF Truthy(prefix) THEN to_snake_case(prefix.s) \o <<":">> \o to_snake_case(k)
    ELSE to_snake_case(k)

\* The for loop of hdf5_attrs_to_dict on the attributes that are left
RECURSIVE hdf5_attrs_loop(_, _, _)
hdf5_attrs_loop(attrs, prefix, results) ==
    IF attrs = <<>> THEN results
    ELSE IF Head(attrs).key = SimulationTimeWindow
    THEN hdf5_attrs_loop(Tail(attrs), prefix, results)
    ELSE hdf5_attrs_loop(Tail(attrs), prefix,
                         dict_set(results, attr_key(prefix, Head(attrs).key),
                                  convert_hdf5_value(Head(attrs).value)))

hdf5_attrs_to_dict(attrs, prefix) == hdf5_attrs_loop(attrs, prefix, <<>>)

\* get_first_hdf_group(parent_group): the first item that is a group, or
\* None; a parent that is None has no items()
RECURSIVE first_group(_)
first_group(items) ==
    IF items = <<>> THEN None
    ELSE IF Head(items).kind = "Group" THEN Head(items)
    ELSE first_group(Tail(items))

get_first_hdf_group(parent_group) ==
    IF parent_group = None THEN [kind |-> "AttributeError"]
    ELSE first_group(parent_group.items)

Projection == <<"p", "r", "o", "j", "e", "c", "t", "i", "o", "n">>
ProjWkt2 == <<"p", "r", "o", "j", ":", "w", "k", "t", "2">>

\* RasHdf.get_attrs
get_attrs(self) ==
    LET attrs      == hdf5_attrs_to_dict(self.attrs, NoneValue)
        projection == dict_get(attrs, Projection)
    IN  IF projection # None
        THEN dict_set(dict_without(attrs, Projection), ProjWkt2, projection)
        ELSE dict_without(attrs, Projection)

\* x ** 0.5 for a float that is the square of a number of tenths, for True
\* and False, and for a str
pow_half(x) ==
    IF x.kind = "str" THEN [kind |-> "TypeError"]
    ELSE IF x.kind = "bool"
    THEN [kind |-> "float",
          val |-> [neg |-> FALSE, int |-> IF x.val THEN <<"1">> ELSE <<>>, frac |-> <<>>]]
    ELSE LET hundredths == float_scaled(x.val, 2)
             tenths     == CHOOSE r \in 0..hundredths : r * r = hundredths
         IN  [kind |-> "float",
              val |-> [neg |-> FALSE,
                       int |-> lstrip_zeros(str_int(tenths \div 10)),
                       frac |-> rstrip_zeros(str_int(tenths % 10))]]

Prefix2DFlowAreas == <<"2", "D", " ", "F", "l", "o", "w", " ", "A", "r", "e", "a", "s">>
PrefixGeometry == <<"G", "e", "o", "m", "e", "t", "r", "y">>
PrefixStructures == <<"S", "t", "r", "u", "c", "t", "u", "r", "e", "s">>
CellAverageSizeKey == <<"2", "d", "_", "f", "l", "o", "w", "_", "a", "r", "e", "a", ":", "c", "e", "l", "l", "_", "a", "v", "e", "r", "a", "g", "e", "_", "s", "i", "z", "e">>
CellAverageLengthKey == <<"2", "d", "_", "f", "l", "o", "w", "_", "a", "r", "e", "a", ":", "c", "e", "l", "l", "_", "a", "v", "e", "r", "a", "g", "e", "_", "l", "e", "n", "g", "t", "h">>

\* get_geom_attrs from the first group of the 2D flow areas on
geom_attrs_2d(attrs, d2_flow_area) ==
    IF d2_flow_area = None THEN [kind |-> "dict", val |-> attrs]
    ELSE LET d2_flow_area_attrs == hdf5_attrs_to_dict(d2_flow_area.attrs, Some(Prefix2DFlowAreas))
             cell_average_size  == dict_get(d2_flow_area_attrs, CellAverageSizeKey)
         IN  IF cell_average_size # None
             THEN IF pow_half(cell_average_size).kind = "TypeError"
                  THEN pow_half(cell_average_size)
                  ELSE [kind |-> "dict",
                        val |-> dict_update(attrs, dict_set(d2_flow_area_attrs,
                                                            CellAverageLengthKey,
                                                            pow_half(cell_average_size)))]
             ELSE [kind |-> "dict", val |-> dict_update(attrs, d2_flow_area_attrs)]

\* RasGeomHdf.get_geom_attrs
get_geom_attrs(self) ==
    LET attrs0 == get_attrs(self)
        attrs1 == IF self.Geometry # None
                  THEN dict_update(attrs0, hdf5_attrs_to_dict(self.Geometry.attrs, Some(PrefixGeometry)))
                  ELSE attrs0
        attrs2 == IF self.Structures # None
                  THEN dict_update(attrs1, hdf5_attrs_to_dict(self.Structures.attrs, Some(PrefixStructures)))
                  ELSE attrs1
    IN  IF get_first_hdf_group(self.FlowAreas).kind = "AttributeError"
        THEN [kind |-> "dict", val |-> attrs2]
        ELSE geom_attrs_2d(attrs2, get_first_hdf_group(self.FlowAreas))

\* The files of the model
Sixteen == [neg |-> FALSE, int |-> <<"1", "6">>, frac |-> <<>>]
SixAndAQuarter == [neg |-> FALSE, int |-> <<"6">>, frac |-> <<"2", "5">>]

NpFloat(v) == [kind |-> "np.floating", nan |-> FALSE, val |-> v]
NaN == [kind |-> "np.floating", nan |-> TRUE]
Bytes(s) == [kind |-> "bytes", val |-> s]
Attr(k, v) == [key |-> k, value |-> v]

CellAverageSize == <<"C", "e", "l", "l", " ", "A", "v", "e", "r", "a", "g", "e", " ", "S", "i", "z", "e">>
CellMinimumSize == <<"C", "e", "l", "l", " ", "M", "i", "n", "i", "m", "u", "m", " ", "S", "i", "z", "e">>
AttrProjection == <<"P", "r", "o", "j", "e", "c", "t", "i", "o", "n">>
AttrVersion == <<"V", "e", "r", "s", "i", "o", "n">>

Optional(S) == {<<>>} \cup {<<a>> : a \in S}

AreaAttrs ==
    {a \o b \o c :
        a \in Optional({Attr(CellAverageSize, v) : v \in {NpFloat(Sixteen), NpFloat(SixAndAQuarter), NaN}}),
        b \in Optional({Attr(CellMinimumSize, NpFloat(SixAndAQuarter))}),
        c \in Optional({Attr(SimulationTimeWindow, Bytes(StrTrue))})}

Dataset == [kind |-> "Dataset"]
Group(attrs) == [kind |-> "Group", attrs |-> attrs]

HdfItems == {Dataset} \cup {Group(a) : a \in AreaAttrs}

HdfFiles ==
    [attrs      : {<<>>, <<Attr(AttrProjection, Bytes(<<"w", "k", "t">>))>>},
     Geometry   : {None, Group(<<Attr(AttrVersion, Bytes(<<"1", ".", "0">>))>>)},
     Structures : {None, Group(<<>>)},
     FlowAreas  : {None} \cup {[items |-> s] : s \in SeqsUpTo(HdfItems, MaxItems)}]

CallGetAttrs ==
    /\ result = Idle
    /\ \E self \in HdfFiles :
        /\ call' = [op |-> "RasHdf.get_attrs", self |-> self]
        /\ result' = [kind |-> "dict", val |-> get_attrs(self)]
    /\ UNCHANGED <<lines, packed, crs, _concave_hull, s3_client, kwargs, keys,
                   tries, huc8, requests>>

CallGetGeomAttrs ==
    /\ result = Idle
    /\ \E self \in HdfFiles :
        /\ call' = [op |-> "RasGeomHdf.get_geom_attrs", self |-> self]
        /\ result' = get_geom_attrs(self)
    /\ UNCHANGED <<lines, packed, crs, _concave_hull, s3_client, kwargs, keys,
                   tries, huc8, requests>>

InitHdf ==
    /\ lines = <<>>
    /\ packed = NotPacked
    /\ call = [op |-> "none"]
    /\ result = Idle
    /\ crs = None
    /\ _concave_hull = None
    /\ s3_client = <<>>
    /\ kwargs = None
    /\ keys = <<>>
    /\ tries = 0
    /\ huc8 = None
    /\ requests = 0

NextHdf ==
    \/ CallGetAttrs
    \/ CallGetGeomAttrs
    \/ Return

SpecHdf == InitHdf /\ [][NextHdf]_vars

----------------------------------------------------------------------------
(* The claims.  Positions in the formulas count from 1, as TLA+ does.      *)

Min(S) == CHOOSE x \in S : \A y \in S : x <= y
Positions(x, ls) == {i \in 1..Len(ls) : ls[i] = x}
HasEndStr(line, end_strs) == \E e \in 1..Len(end_strs) : str_in(end_strs[e], line)

\* C1: when a document holds the anchor line in exactly one of its
\* whitespace variants, handle_spaces called with any variant returns the
\* line that is present.
C1_AnyVariantFindsThePresentLine ==
    (/\ call.op = "handle_spaces"
     /\ call.line \in AnchorVariants
     /\ Cardinality({v \in AnchorVariants : list_in(v, lines)}) = 1)
    => \A v \in AnchorVariants :
          list_in(v, lines) => result = [kind |-> "str", val |-> v]

\* C2: handle_spaces returns a line of lines or raises; it never returns a
\* string that lines does not hold.
C2_ReturnsALineOfLinesOrRaises ==
    call.op = "handle_spaces"
    => \/ result.kind = "ValueError"
       \/ result.kind = "str" /\ list_in(result.val, lines)

\* C3: when the anchor is a line of the document and at least
\* number_of_lines (>= 1) lines follow it, text_block_from_start_str_length
\* returns exactly those lines, also when the block ends the document.
C3_ReturnsTheLinesAfterTheAnchor ==
    (/\ call.op = "text_block_from_start_str_length"
     /\ call.number_of_lines >= 1
     /\ Cardinality(Positions(call.start_str, lines)) = 1
     /\ Len(lines) - Min(Positions(call.start_str, lines)) >= call.number_of_lines)
    => LET a == Min(Positions(call.start_str, lines))
       IN  result = [kind |-> "list",
                     val |-> SubSeq(lines, a + 1, a + call.number_of_lines)]

\* C4: when fewer than number_of_lines lines follow the anchor,
\* text_block_from_start_str_length raises an error.
C4_TooFewLinesRaises ==
    (/\ call.op = "text_block_from_start_str_length"
     /\ Cardinality(Positions(call.start_str, lines)) = 1
     /\ Len(lines) - Min(Positions(call.start_str, lines)) < call.number_of_lines)
    => result.kind = "ValueError"

\* The anchor line a call of text_block_from_start_end_str resolved: the
\* first line equal to start_str, or to the variant found in its place.
AnchorPositions ==
    {Min(Positions(v, lines)) :
        v \in {w \in AnchorVariants :
                 /\ list_in(w, lines)
                 /\ list_in(call.start_str, lines) => w = call.start_str}}

\* The later lines that hold an end string
LaterEnds(a) == {j \in (a + 1)..Len(lines) : HasEndStr(lines[j], call.end_strs)}

C6_BlockStartsWithTheAnchor ==
    (/\ call.op = "text_block_from_start_end_str"
     /\ call.additional_lines >= 0
     /\ result.kind = "list")
    => /\ result.val # <<>>
       /\ \E a \in AnchorPositions : result.val[1] = lines[a]

\* The part of line between its first token and the next one (or its end)
IsValueAfterFirstToken(v, line, token) ==
    \E i \in 1..Len(line) :
        /\ SubSeq(line, i, i + Len(token) - 1) = token
        /\ ~str_in(token, SubSeq(line, 1, i + Len(token) - 2))
        /\ v = SubSeq(line, i + Len(token), i + Len(token) + Len(v) - 1)
        /\ ~str_in(token, v)
        /\ \/ i + Len(token) + Len(v) - 1 = Len(line)
           \/ SubSeq(line, i + Len(token) + Len(v), i + 2 * Len(token) + Len(v) - 1) = token

MatchingLines == {i \in 1..Len(lines) : str_in(call.search_string \o call.token, lines[i])}

RemainderAfter(line, keytoken) ==
    SubSeq(line, str_find(keytoken, line) + Len(keytoken) + 1, Len(line))

\* C8: search_contents returns, for every line holding key+token and in the
\* order of the document, all of the line that follows key+token.
C8_ValuesAreTheRemainders ==
    (call.op = "search_contents" /\ ~call.expect_one)
    => LET Matches(line) == str_in(call.search_string \o call.token, line)
           matching == SelectSeq(lines, Matches)
       IN  result = [kind |-> "list",
                     val |-> [i \in 1..Len(matching) |->
                                RemainderAfter(matching[i],
                                               call.search_string \o call.token)]]

\* C9 as stated: pairs packed at a width and laid out over lines, however
\* many fields a line holds, decode at that width to the same pairs.
C9_DecodeInvertsEveryLayout ==
    (/\ call.op = "data_pairs_from_text_block"
     /\ packed # NotPacked
     /\ call.width = packed.width)
    => result = [kind |-> "pairs", val |-> packed.pairs]

\* C9 as amended: pairs packed at a width with a whole number of pairs on
\* every line decode at that width to the same pairs, in the same order.
C9_DecodeInvertsWholePairLayout ==
    (/\ call.op = "data_pairs_from_text_block"
     /\ packed # NotPacked
     /\ call.width = packed.width
     /\ packed.fieldsPerLine % 2 = 0)
    => result = [kind |-> "pairs", val |-> packed.pairs]

\* C9, its case: two pairs on two lines, decoded at the width they were packed at
C9_Witness ==
    /\ call.op = "data_pairs_from_text_block"
    /\ call.width = packed.width
    /\ Len(packed.pairs) = 2
    /\ Len(lines) = 2
    /\ result.kind = "pairs"
    /\ result.val = packed.pairs

\* C10: a block packed at one width, whole pairs on every line, and decoded
\* at the other width ends in a parse failure.
C10_WrongWidthRaises ==
    (/\ call.op = "data_pairs_from_text_block"
     /\ packed # NotPacked
     /\ packed.fieldsPerLine % 2 = 0
     /\ call.width # packed.width)
    => result.kind = "ValueError"

\* C16: when the anchor resolves to a line of the document,
\* text_block_from_start_str_to_empty_line returns the lines from the first
\* anchor line up to and including the first empty line after it, and up to
\* the end of the document when no empty line follows.
C16_BlockRunsToTheFirstEmptyLine ==
    LET found == handle_spaces(call.start_str, lines)
    IN  (/\ call.op = "text_block_from_start_str_to_empty_line"
         /\ found.kind = "str"
         /\ list_in(found.val, lines))
        => LET a == Min(Positions(found.val, lines))
               blanks == {j \in (a + 1)..Len(lines) : lines[j] = <<>>}
               last == IF blanks = {} THEN Len(lines) ELSE Min(blanks)
           IN  result = [kind |-> "list", val |-> SubSeq(lines, a, last)]

\* an empty line follows the anchor and a line follows the empty line
C16_Witness ==
    /\ call.op = "text_block_from_start_str_to_empty_line"
    /\ result.kind = "list"
    /\ Len(result.val) = 2
    /\ result.val[1] = Anchor
    /\ result.val[2] = <<>>
    /\ Len(lines) = 3
    /\ lines[3] # <<>>

\* no empty line follows the anchor: the block runs to the last line
C16_WitnessToTheEnd ==
    /\ call.op = "text_block_from_start_str_to_empty_line"
    /\ result.kind = "list"
    /\ ~list_in(<<>>, lines)
    /\ Len(result.val) = 3

----------------------------------------------------------------------------
(* The claims about a reach.                                               *)

\* The reach, its node headers in the written order, and what they say
Self == Reach(lines, RiverReachName, crs)
Headers == reach_nodes(Self).val
TypeOf(header) == node_type(header).val
StationOf(header) == float(str_split(header, <<",">>)[2]).val
IsXsHeader(header) == TypeOf(header) = 1
IsStructureHeader(header) == TypeOf(header) \in 2..6
XsHeaders == SelectSeq(Headers, IsXsHeader)
StructureHeaders == SelectSeq(Headers, IsStructureHeader)
KeyOf(header) ==
    [river |-> Self.river, reach |-> Self.reach, river_station |-> StationOf(header)]

\* Ten times a station that has at most one decimal
Tenths(v) ==
    10 * digits_value(v.int) + (IF v.frac = <<>> THEN 0 ELSE digits_value(<<v.frac[1]>>))

\* A sequence without the repetitions of its elements
RECURSIVE Dedup(_)
Dedup(s) ==
    IF s = <<>> THEN <<>>
    ELSE LET front == Dedup(SubSeq(s, 1, Len(s) - 1))
         IN  IF list_in(s[Len(s)], front) THEN front ELSE Append(front, s[Len(s)])

\* C11: the dictionary Reach.cross_sections returns holds one entry per
\* cross-section node header (type 1) of the reach, keyed by river, reach and
\* station, in the order in which the headers are written.
C11_OneEntryPerCrossSectionHeader ==
    (call.op = "Reach.cross_sections" /\ result.kind = "dict")
    => /\ Len(result.val) = Len(XsHeaders)
       /\ \A i \in 1..Len(XsHeaders) : result.val[i].key = KeyOf(XsHeaders[i])

\* C12: when the stations of the cross-section node headers are not strictly
\* decreasing in the written order (one is reversed or repeated),
\* Reach.cross_sections fails instead of returning a dictionary.
C12_StationsOutOfOrderRaise ==
    (/\ call.op = "Reach.cross_sections"
     /\ \E i \in 1..(Len(XsHeaders) - 1) :
            Tenths(StationOf(XsHeaders[i])) <= Tenths(StationOf(XsHeaders[i + 1])))
    => result.kind # "dict"

\* The node headers whose type code is none of 1..6
Unsupported == {i \in 1..Len(Headers) : TypeOf(Headers[i]) \notin 1..6}

C13_WitnessReturns ==
    /\ call.op = "Reach.structures"
    /\ result.kind = "dict"
    /\ Len(result.val) = 2

----------------------------------------------------------------------------
(* The claims about a geometry asset.                                      *)

GeometryRequests ==
    {"GeometryAsset.reaches", "GeometryAsset.rivers", "GeometryAsset.junctions",
     "GeometryAsset.cross_sections", "GeometryAsset.structures",
     "GeometryAsset.reach_gdf", "GeometryAsset.xs_gdf",
     "GeometryAsset.concave_hull", "GeometryAsset.get_river_miles"}

\* C14: while the asset has no crs, whatever set_crs and accessor calls came
\* before, every request that needs geometry (reaches, rivers, junctions,
\* cross_sections, structures, reach_gdf, xs_gdf, concave_hull,
\* get_river_miles) fails with the error of the missing reference system.
C14_NoCrsRaisesProjectionError ==
    (crs = None /\ call.op \in GeometryRequests)
    => result = Raise("Projection cannot be None")

\* The reaches of the asset, and the reaches of one river among them
ReachesOfAsset == GeometryAsset_reaches(GeometryAsset).val
ReachesOfRiver(river) ==
    {i \in 1..Len(ReachesOfAsset) : ReachesOfAsset[i].value.river = river}

\* C15: GeometryAsset.rivers groups all the reaches by river: under a river
\* with k reaches there are k entries, and every reach is found under its
\* river.
C15_RiversGroupAllReaches ==
    (call.op = "GeometryAsset.rivers" /\ result.kind = "dict")
    => /\ \A r \in 1..Len(result.val) :
             Len(result.val[r].value) = Cardinality(ReachesOfRiver(result.val[r].key))
       /\ \A i \in 1..Len(ReachesOfAsset) :
             \E r \in 1..Len(result.val) :
                /\ result.val[r].key = ReachesOfAsset[i].value.river
                /\ \E e \in 1..Len(result.val[r].value) :
                      result.val[r].value[e].value = ReachesOfAsset[i].value

\* C17: get_river_miles fails with the error of the unsupported unit when the
\* crs names a unit that is none of ft, us-ft, ft-us, m, meters, or names no
\* unit, and returns a length when the unit is one of them.
C17_UnitDecidesRiverMiles ==
    (call.op = "GeometryAsset.get_river_miles" /\ crs # None)
    => IF crs.units \in {"ft", "us-ft", "ft-us", "m", "meters"}
       THEN result.kind = "float"
       ELSE result.kind = "RuntimeError"

\* C18: with a crs set and cross sections that carry their geometry,
\* concave_hull completes and returns the hull, junctions or no junctions.
C18_ConcaveHullCompletes ==
    (/\ call.op = "GeometryAsset.concave_hull"
     /\ crs # None
     /\ call.framed
     /\ GeometryAsset_cross_sections(GeometryAsset).kind = "dict"
     /\ GeometryAsset_cross_sections(GeometryAsset).val # <<>>)
    => result.kind = "GeoDataFrame"

----------------------------------------------------------------------------
(* The claims about the S3 helpers.                                        *)

\* C19: outside minio mode, converting an s3://bucket/key URL to its https
\* form and converting the result again gives exactly the original URL, for
\* every bucket name and key.
C19_ConvertingTwiceGivesTheUrl ==
    (/\ call.op = "s3_path_public_url_converter"
     /\ ~call.minio_mode
     /\ startswith(call.converted_from, S3Scheme))
    => result = [kind |-> "str", val |-> call.converted_from]

\* The keys of the bucket under the prefix of the call that end with its suffix
KeysUnderPrefix ==
    SelectSeq(s3_client,
              LAMBDA k : startswith(k, call.prefix) /\ endswith(k, call.suffix))

\* C20: list_keys ends, for every listing, with the list of the keys under
\* the prefix that end with the suffix, each one once, over all the pages;
\* for a prefix with no objects it is the empty list.
C20_ListKeysReturnsEveryKeyOnce ==
    (call.op = "list_keys" /\ result.kind # "running")
    => result = [kind |-> "list", val |-> KeysUnderPrefix]


----------------------------------------------------------------------------
(* The claims about the upstream cross section of a structure.             *)

\* The positions in Headers of the cross-section headers before the i-th one
XsBefore(i) == {j \in 1..(i - 1) : IsXsHeader(Headers[j])}

\* The greatest element of a set of integers
Max(S) == CHOOSE x \in S : \A y \in S : y <= x

\* The i-th header is a structure with a cross section of a strictly greater
\* station as the nearest cross section before it
HasValidUpstream(i) ==
    /\ XsBefore(i) # {}
    /\ Tenths(StationOf(Headers[Max(XsBefore(i))])) > Tenths(StationOf(Headers[i]))

\* C21: every Structure that Reach.structures returns has as us_xs a cross
\* section of the same reach with a strictly greater river station; when a
\* structure header has no cross section before it, or the one before it has
\* a smaller or equal station, Reach.structures fails.
C21_UpstreamCrossSectionIsUpstream ==
    (call.op = "Reach.structures")
    => /\ result.kind = "dict"
          => \A e \in 1..Len(result.val) :
                /\ result.val[e].value.us_xs.kind = "XS"
                /\ result.val[e].value.us_xs.river_reach = Self.river_reach
                /\ Tenths(result.val[e].value.us_xs.river_reach_rs.river_station)
                   > Tenths(result.val[e].value.river_reach_rs.river_station)
       /\ (\E i \in 1..Len(Headers) : IsStructureHeader(Headers[i]) /\ ~HasValidUpstream(i))
          => result.kind # "dict"

----------------------------------------------------------------------------
(* The claims about the reaches of a file of several reaches.              *)

\* The reach of the call and its block
ReachOfCall == Reach(lines, call.river_reach, crs)
Block == ReachOfCall.ras_data

\* The positions of the node headers in the block, what a header says, and
\* the lines of the node at a position: up to the next line that holds a
\* node key or a River Reach key
NodePositions == {p \in 1..Len(Block) : str_in(TypeRMLengthLChR \o <<" ", "=">>, Block[p])}
HeaderAt(p) == split_1(Block[p], <<"=">>)
EndOfNode(p) ==
    Min({q \in (p + 1)..Len(Block) :
            str_in(TypeRMLengthLChR, Block[q]) \/ str_in(RiverReach, Block[q])}
        \cup {Len(Block) + 1})
LinesOfNode(p) == SubSeq(Block, p, EndOfNode(p) - 1)
XsPositionsBefore(p) == {q \in NodePositions : q < p /\ TypeOf(HeaderAt(q)) = 1}
StructurePositions == {p \in NodePositions : TypeOf(HeaderAt(p)) \in 2..6}

\* The key of the node at a position
KeyAt(p) ==
    [river |-> ReachOfCall.river, reach |-> ReachOfCall.reach,
     river_station |-> StationOf(HeaderAt(p))]

\* C22: for every Structure that Reach.structures returns, us_xs is the
\* cross section built from the nearest node header of type 1 that precedes
\* the structure's header in the block of the same reach: it has that
\* header's station and lines and the names of the reach.
C22_UpstreamIsTheNearestPrecedingCrossSection ==
    (call.op = "Reach.structures" /\ result.kind = "dict")
    => /\ Len(result.val) = Cardinality({KeyAt(p) : p \in StructurePositions})
       /\ \A p \in StructurePositions : XsPositionsBefore(p) # {}
       /\ \A e \in 1..Len(result.val) :
             \E p \in StructurePositions :
                /\ result.val[e].key = KeyAt(p)
                /\ \A q \in StructurePositions : KeyAt(q) = KeyAt(p) => q <= p
                /\ result.val[e].value.ras_data = LinesOfNode(p)
                /\ XsPositionsBefore(p) # {}
                /\ result.val[e].value.us_xs
                   = [kind |-> "XS", ras_data |-> LinesOfNode(Max(XsPositionsBefore(p))),
                      crs |-> crs, river |-> ReachOfCall.river,
                      reach |-> ReachOfCall.reach, river_reach |-> call.river_reach,
                      river_reach_rs |-> KeyAt(Max(XsPositionsBefore(p)))]

\* a structure after a cross section of its reach, in a file that has another
\* cross section before the River Reach line of the reach
C22_Witness ==
    /\ call.op = "Reach.structures"
    /\ result.kind = "dict"
    /\ Len(result.val) = 1
    /\ \E i \in 1..Len(lines) :
          /\ i < list_index(lines, RiverReach \o <<"=">> \o call.river_reach) + 1
          /\ str_in(TypeRMLengthLChR \o <<" ", "=", " ", "1">>, lines[i])
          /\ lines[i] # result.val[1].value.us_xs.ras_data[1]

\* a structure after two cross sections of its reach
C22_WitnessNearest ==
    /\ call.op = "Reach.structures"
    /\ result.kind = "dict"
    /\ Len(result.val) = 1
    /\ \E p \in StructurePositions : Cardinality(XsPositionsBefore(p)) = 2

\* The positions of the River Reach headers and of the node headers in the
\* file, and the River Reach header that most recently precedes a position
ReachHeaderPositions == {j \in 1..Len(lines) : str_in(RiverReach \o <<"=">>, lines[j])}
NodeHeaderPositions ==
    {i \in 1..Len(lines) : str_in(TypeRMLengthLChR \o <<" ", "=">>, lines[i])}
ReachHeaderBefore(i) == Max({j \in ReachHeaderPositions : j < i})

\* The node headers of the file that follow the River Reach header of the
\* called reach before any other River Reach header, in the written order
NodeHeadersOfReach ==
    LET Belongs(i) ==
            /\ i \in NodeHeaderPositions
            /\ \E j \in ReachHeaderPositions : j < i
            /\ lines[ReachHeaderBefore(i)] = RiverReach \o <<"=">> \o call.river_reach
        RECURSIVE Collect(_)
        Collect(i) ==
            IF i > Len(lines) THEN <<>>
            ELSE (IF Belongs(i) THEN <<lines[i]>> ELSE <<>>) \o Collect(i + 1)
    IN  Collect(1)

\* C23: every node header of the file lies in the block of the reach whose
\* River Reach header most recently precedes it and in no other block: the
\* node headers of the block Reach(...) takes are those between the River
\* Reach header of the reach and the next River Reach header, none lost at
\* the boundary.
C23_NodeHeadersBelongToOneReach ==
    (call.op = "Reach" /\ result.kind = "Reach")
    => SelectSeq(result.ras_data, LAMBDA l : str_in(TypeRMLengthLChR \o <<" ", "=">>, l))
       = NodeHeadersOfReach

----------------------------------------------------------------------------
(* The claim about the cross sections of a reach with an unsupported node. *)

\* C24: when the block of the reach holds a node header whose type code is
\* none of 1..6, Reach.cross_sections fails with the error of the
\* unsupported type and returns no dictionary that leaves the node out.
C24_CrossSectionsRejectUnsupportedCode ==
    (call.op = "Reach.cross_sections" /\ Unsupported # {})
    => result.kind = "TypeError"

----------------------------------------------------------------------------
(* The claims about the counted blocks of a cross section and a reach.     *)

\* The count the key line of the called accessor declares, when it is a number
DeclaredCount ==
    IF call.op = "XS.station_elevation_points" THEN int(packed.sta) ELSE int(packed.cut)

\* The pairs that follow the key line of the called accessor
PresentCount ==
    IF call.op = "XS.station_elevation_points" THEN packed.points ELSE packed.coords

\* C25: when the count a cut line, a #Sta/Elev line or a Reach XY line
\* declares differs from the number of pairs on the lines after it, coords
\* and station_elevation_points fail with an error; whenever they return
\* pairs, there are as many as the count declares.
C25_ReturnedPairsMatchTheDeclaredCount ==
    (/\ call.op \in {"XS.coords", "XS.station_elevation_points", "Reach.coords"}
     /\ DeclaredCount.kind = "int")
    => /\ result.kind = "pairs" => Len(result.val) = DeclaredCount.val
       /\ DeclaredCount.val # PresentCount
          => result.kind \in {"ValueError", "TypeError"}

\* The accessors that read the cut line, and those that read the #Sta/Elev line
CutLineAccessors == {"XS.number_of_coords", "XS.coords"}
StaElevAccessors ==
    {"XS.number_of_station_elevation_points", "XS.station_elevation_points",
     "XS.thalweg", "XS.xs_max_elevation"}

Raised == {"ValueError", "TypeError"}

\* C26: for a cross section whose cut line or #Sta/Elev line is there with a
\* count that is no integer, the cross section reports zero coordinates,
\* zero elevation points, and every accessor that reads that line completes
\* without raising.
C26_UnparsedCountGivesZeroAndNoError ==
    /\ (call.op \in CutLineAccessors /\ packed.cut = <<"x">>)
       => /\ result.kind \notin Raised
          /\ call.op = "XS.number_of_coords" => result = [kind |-> "int", val |-> 0]
    /\ (call.op \in StaElevAccessors /\ packed.sta = <<"x">>)
       => /\ result.kind \notin Raised
          /\ call.op = "XS.number_of_station_elevation_points"
             => result = [kind |-> "int", val |-> 0]

----------------------------------------------------------------------------
(* The claims about the cache and the document of a geometry asset.        *)

DocumentReaders ==
    {"GeometryAsset.reaches", "GeometryAsset.rivers", "GeometryAsset.junctions",
     "GeometryAsset.cross_sections", "GeometryAsset.structures", "GeometryAsset.has_2d",
     "handle_spaces", "text_block_from_start_end_str", "text_block_from_start_str_length",
     "text_block_from_start_str_to_empty_line", "search_contents",
     "data_pairs_from_text_block"}

C28_WitnessAccessor ==
    /\ call.op = "GeometryAsset.cross_sections"
    /\ result.kind = "dict"
    /\ Len(result.val) = 1


----------------------------------------------------------------------------
(* The claim about get_huc8.                                               *)

\* C29: get_huc8 ends after at most 5 requests to the remote service: it
\* returns the code as soon as one response holds it, and it returns None
\* after 5 attempts that failed.
C29_AtMostFiveRequests ==
    call.op = "get_huc8"
        => /\ requests <= 5
           /\ huc8 # None => result = huc8
           /\ (tries = 5 /\ huc8 = None /\ result # Running) => result = None
           /\ result = None => tries = 5


----------------------------------------------------------------------------
(* The claim about the attributes of a geometry HDF file.                  *)

\* The first group among the items of the 2D flow areas of a file, if any
FirstFlowAreaGroups(f) ==
    IF f.FlowAreas = None THEN {}
    ELSE {f.FlowAreas.items[i] : i \in
            {i \in 1..Len(f.FlowAreas.items) :
                /\ f.FlowAreas.items[i].kind = "Group"
                /\ \A j \in 1..(i - 1) : f.FlowAreas.items[j].kind # "Group"}}

CellAverageSizesOf(f) ==
    UNION {{g.attrs[a].value : a \in {a \in 1..Len(g.attrs) : g.attrs[a].key = CellAverageSize}} :
            g \in FirstFlowAreaGroups(f)}

CellAverageLengthsIn(d) ==
    {d[i].value : i \in {i \in 1..Len(d) : d[i].key = CellAverageLengthKey}}

\* C30: when the first 2D flow area group of the file carries a cell average
\* size, the dictionary get_geom_attrs returns holds a cell average length,
\* the square root of that size; the entry is missing only when the
\* attribute is.
C30_CellAverageLengthIsThereWithTheSize ==
    call.op = "RasGeomHdf.get_geom_attrs"
        => /\ result.kind = "dict"
           /\ CellAverageSizesOf(call.self) # {}
              <=> CellAverageLengthsIn(result.val) # {}
           /\ \A size \in CellAverageSizesOf(call.self),
                 length \in CellAverageLengthsIn(result.val) :
                    ~size.nan => Tenths(length.val) * Tenths(length.val)
                                    = float_scaled(size.val, 2)
====
